---- MODULE Spec2Model ----
(***************************************************************************)
(* SmartShop administration console: the order detail page and the add     *)
(* payment page of two browser sessions, talking to the order / payment    *)
(* lifecycle engine over HTTP.  The pages are modelled from the TypeScript *)
(* sources; the engine behind the endpoints is not part of the sources and *)
(* is modelled from the specification (sections 4.4, 4.5 and 6).           *)
(***************************************************************************)
EXTENDS Integers, Sequences, FiniteSets, TLC

\* ------------------------------------------------------------------ bounds
MaxPayments == 2        \* payments the ledger of the order may hold
OrderTotal == 1         \* order.totalAmount, in whole currency units
ExtraProducts == 2      \* products of the catalog beyond its first page
MaxFetches == 2         \* calls of fetchProducts in flight at a time

Sessions == {"s1", "s2"}

\* ------------------------------------------------------------------ types
OrderStatus == {"PENDING", "CONFIRMED", "CANCELED", "REJECTED"}
PaymentStatus == {"EN_ATTENTE", "ENCAISSE", "REJETE"}
PaymentMethod == {"ESPECES", "CHEQUE", "VIREMENT"}
Role == {"ADMIN", "CLIENT"}

TerminalOrderStatus == {"CONFIRMED", "CANCELED", "REJECTED"}

\* values a text input can hold: empty, whitespace only, a real value
Texts == {"", " ", "b"}
\* values the date input can hold
Dates == {"", "d"}
\* values the amount input can hold after parseFloat(...) || 0
AmountInputs == 0 .. (OrderTotal + 1)

\* an optional request field that was not spread into the request body
Absent == "<absent>"

\* String.prototype.trim on the values of Texts
trim(t) == IF t = " " THEN "" ELSE t

FormData == [amount : AmountInputs, paymentMethod : PaymentMethod,
             reference : Texts, bank : Texts, chequeNumber : Texts,
             dueDate : Dates]

\* useState<CreatePaymentRequest>({...}): the form as the page mounts
InitialForm == [amount |-> 0, paymentMethod |-> "ESPECES", reference |-> "",
                bank |-> "", chequeNumber |-> "", dueDate |-> ""]

NoData == [amount |-> 0, paymentMethod |-> "ESPECES", reference |-> "",
           bank |-> Absent, chequeNumber |-> Absent, dueDate |-> Absent]

NoRequest == [kind |-> "none", id |-> 0, data |-> NoData]

NoFetch == [oDone |-> FALSE, o |-> "null", pDone |-> FALSE, p |-> <<>>]

\* ---------------------------------------------------- CreateOrderPage types
Tier == {"BASIC", "SILVER", "GOLD", "PLATINUM"}

\* amounts are counted in hundredths of a centime: with prices of two
\* decimals every percentage calculateTotals takes is a whole number of units
MAD(x) == x * 10000

Centimes(c) == c * 100

\* selectedClient === null
NoClient == [id |-> 0, tier |-> "null"]

\* a client of each tier
TierClients ==
    {[id |-> 1, tier |-> "BASIC"], [id |-> 2, tier |-> "SILVER"],
     [id |-> 3, tier |-> "GOLD"], [id |-> 4, tier |-> "PLATINUM"]}

\* what GET /clients answers
SrvClients == {c \in TierClients : c.tier \in {"SILVER", "PLATINUM"}}

\* the products of the shop with their price
SrvProducts ==
    {[id |-> 1, price |-> MAD(600)], [id |-> 2, price |-> MAD(200)],
     [id |-> 3, price |-> MAD(50)]}

ProductIds == {p.id : p \in SrvProducts}

\* the stock of each product before any order
InitialStock == [i \in ProductIds |-> CASE i = 1 -> 2 [] i = 2 -> 1 [] OTHER -> 0]

\* a promo code is a string, held as the sequence of its characters
UpperAlnum ==
    {"A", "B", "C", "D", "E", "F", "G", "H", "I", "J", "K", "L", "M", "N",
     "O", "P", "Q", "R", "S", "T", "U", "V", "W", "X", "Y", "Z",
     "0", "1", "2", "3", "4", "5", "6", "7", "8", "9"}

\* String.prototype.toUpperCase, on the characters the inputs are made of
toUpperCase(t) ==
    [i \in 1..Len(t) |->
        CASE t[i] = "p" -> "P" [] t[i] = "r" -> "R" [] t[i] = "o" -> "O"
          [] t[i] = "m" -> "M" [] t[i] = "a" -> "A" [] t[i] = "b" -> "B"
          [] t[i] = "x" -> "X" [] OTHER -> t[i]]

\* what the user may type into the promo code input
PromoInputs ==
    { <<>>,
      <<"P", "R", "O", "M", "O", "-", "A", "B", "1", "2">>,
      <<"p", "r", "o", "m", "o", "-", "a", "b", "1", "2">>,
      <<"P", "R", "O", "M", "O", "-", "2", "0", "2", "4">>,
      <<"P", "R", "O", "M", "O", "-", "A", "B", "1">>,
      <<"P", "R", "O", "M", "O", "-", "A", "B", "1", "2", "3">>,
      <<"P", "R", "O", "M", "X", "-", "A", "B", "1", "2">>,
      <<"X", "P", "R", "O", "M", "O", "-", "A", "B", "1", "2">>,
      <<"P", "R", "O", "M", "O", "-", "A", "B", "-", "2">> }

\* ProductsListPage: const [pageSize] = useState(10)
pageSize == 10

\* the ids of the products of the catalog
Catalog == 1 .. (pageSize + ExtraProducts)

\* the products that are deleted and restored: those beyond the first page
ClickIds == {p \in Catalog : p > pageSize}

\* the aggregates of a client without a confirmed order
NoAggregates == [totalSpent |-> 0, totalOrders |-> 0]

\* no login() in progress
NoLogin == [phase |-> "idle", credentials |-> "none"]

\* no delete or restore in flight on the products list
NoListAction == [kind |-> "none", id |-> 0, page |-> 0, includeDeleted |-> FALSE]

NoTotals == [subTotal |-> 0, totalDiscount |-> 0, tax |-> 0, totalAmount |-> 0,
             tierDiscount |-> 0, promoDiscount |-> 0]

VARIABLES
    user,           \* AuthContext: the role of the session's user, or "null"
    route,          \* the page the session has mounted
    srvStatus,      \* engine: status of the order
    srvPayments,    \* engine: the order's payments, index = payment id
    order,          \* page state: status of the loaded order, or "null"
    payments,       \* OrderDetailPage state: the loaded payments
    loading,        \* page state
    error,          \* page state
    actionLoading,  \* OrderDetailPage state
    submitting,     \* AddPaymentPage state
    success,        \* AddPaymentPage state
    errors,         \* AddPaymentPage state: the fields carrying an error
    fetch,          \* loadOrderData: the two GETs of Promise.all in flight
    request,        \* the mutation request the session has in flight
    step,           \* CreateOrderPage state: the step of the wizard
    clients,        \* CreateOrderPage state: the loaded clients
    products,       \* CreateOrderPage state: the loaded products in stock
    selectedClient, \* CreateOrderPage state
    orderItems,     \* CreateOrderPage state: the lines of the order
    promoCode,      \* CreateOrderPage state
    totals,         \* CreateOrderPage: calculateTotals() of the last render
    srvOrders,      \* engine: the lines of the orders placed
    srvStock,       \* engine: available quantity of each product
    srvAgg,         \* engine: totalSpent and totalOrders of the order's client
    authLoading,    \* AuthContext: loading
    authCheck,      \* AuthContext: the GET /auth/me of checkAuth
    loginReq,       \* AuthContext: login() in progress
    logoutReq,      \* AuthContext: logout() in progress
    srvSession,     \* engine: the user of the session cookie, or "null"
    isLoading,      \* LoginPage state
    loginError,     \* LoginPage state: error
    currentPage,    \* ProductsListPage state
    showDeleted,    \* ProductsListPage state
    totalPages,     \* ProductsListPage state
    totalElements,  \* ProductsListPage state
    listProducts,   \* ProductsListPage state: products
    listFetches,    \* ProductsListPage: the calls of fetchProducts in flight
    listAction,     \* ProductsListPage: the delete or restore in flight
    srvDeleted,     \* engine: the products that are soft-deleted
    formData        \* AddPaymentPage state

\* the state of the order wizard and of the engine behind POST /orders
wizVars == <<step, clients, products, selectedClient, orderItems, promoCode,
             totals, srvOrders, srvStock>>

\* the state of the order wizard alone
wizPage == <<step, clients, products, selectedClient, orderItems, promoCode,
             totals>>

\* the state of AuthContext and of the login page
authVars == <<authLoading, authCheck, loginReq, logoutReq, srvSession,
              isLoading, loginError>>

\* the state of the products list
listVars == <<currentPage, showDeleted, totalPages, totalElements,
              listProducts, listFetches, listAction, srvDeleted>>

extVars == <<srvAgg, authVars, listVars, formData>>

vars == <<user, route, srvStatus, srvPayments, order, payments, loading,
          error, actionLoading, submitting, success, errors, fetch, request,
          wizVars, extVars>>

srvVars == <<srvStatus, srvPayments>>

\* ------------------------------------------------------------------ helpers
RECURSIVE SumAmounts(_, _)
SumAmounts(ps, st) ==
    IF ps = <<>> THEN 0
    ELSE (IF Head(ps).paymentStatus \in st THEN Head(ps).amount ELSE 0)
         + SumAmounts(Tail(ps), st)

\* ------------------------------------------------- OrderDetailPage (view)
\* isAdmin true of any logged-in user
isAdmin_AnyUser(s) == user[s] # "null"

isAdmin(s) == user[s] = "ADMIN"

\* totalPaid with the filter letting EN_ATTENTE payments through
totalPaid_NotRejected(ps) == SumAmounts(ps, {"ENCAISSE", "EN_ATTENTE"})

totalPaid(ps) == SumAmounts(ps, {"ENCAISSE"})

remainingAmount(s) ==
    IF order[s] # "null" THEN OrderTotal - totalPaid(payments[s]) ELSE 0

\* the page renders its content: neither the spinner nor the error view
DetailRendered(s) ==
    /\ route[s] = "detail"
    /\ ~loading[s]
    /\ ~(error[s] \/ order[s] = "null")

\* the error view with its Try Again button
DetailErrorView(s) ==
    /\ route[s] = "detail"
    /\ ~loading[s]
    /\ (error[s] \/ order[s] = "null")

\* canConfirm without the remaining amount
canConfirm_NoBalance(s) == order[s] = "PENDING" /\ isAdmin(s)

canConfirm(s) ==
    order[s] = "PENDING" /\ isAdmin(s) /\ remainingAmount(s) <= 0

\* canCancel without the order status
canCancel_AnyStatus(s) == isAdmin(s)

canCancel(s) == order[s] = "PENDING" /\ isAdmin(s)

\* header buttons: rendered when canConfirm / canCancel, disabled={actionLoading}
HeaderConfirmEnabled(s) == canConfirm(s) /\ ~actionLoading[s]

HeaderCancelEnabled(s) == canCancel(s) /\ ~actionLoading[s]

\* "Actions for Admin" card
AdminActionsShown(s) == isAdmin(s) /\ order[s] = "PENDING"

\* the confirm button of the card disabled by actionLoading alone
AdminConfirmEnabled_NoBalance(s) == AdminActionsShown(s) /\ ~actionLoading[s]

AdminConfirmEnabled(s) ==
    AdminActionsShown(s) /\ ~(actionLoading[s] \/ remainingAmount(s) > 0)

AdminCancelEnabled(s) == AdminActionsShown(s) /\ ~actionLoading[s]

\* the payment buttons shown whatever the payment status
PaymentActionsShown_AnyStatus(s, i) == isAdmin(s)

\* Encash / Reject buttons of payment i
PaymentActionsShown(s, i) ==
    isAdmin(s) /\ payments[s][i].paymentStatus = "EN_ATTENTE"

PaymentActionsEnabled(s, i) == PaymentActionsShown(s, i) /\ ~actionLoading[s]

\* "Add Payment" button of the payments card
AddPaymentShown(s) == order[s] # "CANCELED" /\ order[s] # "REJECTED"

\* --------------------------------------------------- AddPaymentPage (view)
FormRendered(s) ==
    /\ route[s] = "addPayment"
    /\ ~loading[s]
    /\ ~(error[s] /\ order[s] = "null")

\* validate() without the comparison of the amount with the order total
newErrors_NoTotalCheck(s, fd) ==
    (IF fd.amount = 0 \/ fd.amount <= 0 THEN {"amount"} ELSE {})
    \cup (IF trim(fd.reference) = "" THEN {"reference"} ELSE {})
    \cup (IF fd.paymentMethod = "CHEQUE" /\ trim(fd.bank) = ""
          THEN {"bank"} ELSE {})
    \cup (IF fd.paymentMethod = "CHEQUE" /\ trim(fd.chequeNumber) = ""
          THEN {"chequeNumber"} ELSE {})
    \cup (IF fd.paymentMethod = "CHEQUE" /\ fd.dueDate = ""
          THEN {"dueDate"} ELSE {})
    \cup (IF fd.paymentMethod = "VIREMENT" /\ trim(fd.bank) = ""
          THEN {"bank"} ELSE {})

\* validate() testing the cheque number without trimming it
newErrors_NoChequeTrim(s, fd) ==
    (IF (fd.amount = 0 \/ fd.amount <= 0)
        \/ (order[s] # "null" /\ fd.amount > OrderTotal)
     THEN {"amount"} ELSE {})
    \cup (IF trim(fd.reference) = "" THEN {"reference"} ELSE {})
    \cup (IF fd.paymentMethod = "CHEQUE" /\ trim(fd.bank) = ""
          THEN {"bank"} ELSE {})
    \cup (IF fd.paymentMethod = "CHEQUE" /\ fd.chequeNumber = ""
          THEN {"chequeNumber"} ELSE {})
    \cup (IF fd.paymentMethod = "CHEQUE" /\ fd.dueDate = ""
          THEN {"dueDate"} ELSE {})
    \cup (IF fd.paymentMethod = "VIREMENT" /\ trim(fd.bank) = ""
          THEN {"bank"} ELSE {})

\* validate(): the fields that get an entry in newErrors
newErrors(s, fd) ==
    (IF (fd.amount = 0 \/ fd.amount <= 0)
        \/ (order[s] # "null" /\ fd.amount > OrderTotal)
     THEN {"amount"} ELSE {})
    \cup (IF trim(fd.reference) = "" THEN {"reference"} ELSE {})
    \cup (IF fd.paymentMethod = "CHEQUE" /\ trim(fd.bank) = ""
          THEN {"bank"} ELSE {})
    \cup (IF fd.paymentMethod = "CHEQUE" /\ trim(fd.chequeNumber) = ""
          THEN {"chequeNumber"} ELSE {})
    \cup (IF fd.paymentMethod = "CHEQUE" /\ fd.dueDate = ""
          THEN {"dueDate"} ELSE {})
    \cup (IF fd.paymentMethod = "VIREMENT" /\ trim(fd.bank) = ""
          THEN {"bank"} ELSE {})

validate(s, fd) == newErrors(s, fd) = {}

\* the request body built by handleSubmit
paymentData(fd) ==
    [amount        |-> fd.amount,
     paymentMethod |-> fd.paymentMethod,
     reference     |-> trim(fd.reference),
     bank          |-> IF fd.bank # "" THEN trim(fd.bank) ELSE Absent,
     chequeNumber  |-> IF fd.chequeNumber # "" THEN trim(fd.chequeNumber)
                       ELSE Absent,
     dueDate       |-> IF fd.dueDate # "" THEN fd.dueDate ELSE Absent]

\* -------------------------------------------------- CreateOrderPage (view)
\* the pattern without its end anchor: /^PROMO-[A-Z0-9]{4}/
PromoTest_NoAnchor(code) ==
    /\ Len(code) >= 10
    /\ SubSeq(code, 1, 6) = <<"P", "R", "O", "M", "O", "-">>
    /\ \A i \in 7..10 : code[i] \in UpperAlnum

\* /^PROMO-[A-Z0-9]{4}$/.test(code)
PromoTest(code) ==
    /\ Len(code) = 10
    /\ SubSeq(code, 1, 6) = <<"P", "R", "O", "M", "O", "-">>
    /\ \A i \in 7..10 : code[i] \in UpperAlnum

\* orderItems.reduce((sum, item) => sum + item.price * item.quantity, 0)
RECURSIVE subTotalOf(_)
subTotalOf(items) ==
    IF items = <<>> THEN 0
    ELSE subTotalOf(SubSeq(items, 1, Len(items) - 1))
         + items[Len(items)].price * items[Len(items)].quantity

\* the tier discount with strict thresholds
tierDiscountOf_Exclusive(client, subTotal) ==
    IF client # NoClient
    THEN IF client.tier = "SILVER" /\ subTotal > MAD(500)
         THEN (subTotal * 5) \div 100
         ELSE IF client.tier = "GOLD" /\ subTotal > MAD(800)
         THEN (subTotal * 10) \div 100
         ELSE IF client.tier = "PLATINUM" /\ subTotal > MAD(1200)
         THEN (subTotal * 15) \div 100
         ELSE 0
    ELSE 0

\* the tier discount falling back to the discount of the tiers below
tierDiscountOf_Cascade(client, subTotal) ==
    IF client # NoClient
    THEN IF client.tier = "PLATINUM" /\ subTotal >= MAD(1200)
         THEN (subTotal * 15) \div 100
         ELSE IF client.tier \in {"GOLD", "PLATINUM"} /\ subTotal >= MAD(800)
         THEN (subTotal * 10) \div 100
         ELSE IF client.tier \in {"SILVER", "GOLD", "PLATINUM"}
                 /\ subTotal >= MAD(500)
         THEN (subTotal * 5) \div 100
         ELSE 0
    ELSE 0

\* calculateTotals: "Apply tier discount"
tierDiscountOf(client, subTotal) ==
    IF client # NoClient
    THEN IF client.tier = "SILVER" /\ subTotal >= MAD(500)
         THEN (subTotal * 5) \div 100
         ELSE IF client.tier = "GOLD" /\ subTotal >= MAD(800)
         THEN (subTotal * 10) \div 100
         ELSE IF client.tier = "PLATINUM" /\ subTotal >= MAD(1200)
         THEN (subTotal * 15) \div 100
         ELSE 0
    ELSE 0

\* calculateTotals: "Apply promo code discount (5% if valid)"
promoDiscountOf(code, subTotal) ==
    IF code # <<>> /\ PromoTest(code) THEN (subTotal * 5) \div 100 ELSE 0

\* the tax taken on the amount before the discounts
taxOf_PreDiscount(subTotal, totalDiscount) == (subTotal * 20) \div 100

\* calculateTotals: taxableAmount * 0.20
taxOf(subTotal, totalDiscount) == ((subTotal - totalDiscount) * 20) \div 100

\* calculateTotals with the promo percentage taken on what the tier discount
\* leaves
calculateTotals_Compounded(client, items, code) ==
    LET subTotal == subTotalOf(items)
        tierDiscount == tierDiscountOf(client, subTotal)
        promoDiscount == promoDiscountOf(code, subTotal - tierDiscount)
        totalDiscount == tierDiscount + promoDiscount
        taxableAmount == subTotal - totalDiscount
        tax == taxOf(subTotal, totalDiscount)
        totalAmount == taxableAmount + tax
    IN [subTotal |-> subTotal, totalDiscount |-> totalDiscount, tax |-> tax,
        totalAmount |-> totalAmount, tierDiscount |-> tierDiscount,
        promoDiscount |-> promoDiscount]

\* calculateTotals with the tax added to the amount before the discounts
calculateTotals_TotalFromSubTotal(client, items, code) ==
    LET subTotal == subTotalOf(items)
        tierDiscount == tierDiscountOf(client, subTotal)
        promoDiscount == promoDiscountOf(code, subTotal)
        totalDiscount == tierDiscount + promoDiscount
        tax == taxOf(subTotal, totalDiscount)
        totalAmount == subTotal + tax
    IN [subTotal |-> subTotal, totalDiscount |-> totalDiscount, tax |-> tax,
        totalAmount |-> totalAmount, tierDiscount |-> tierDiscount,
        promoDiscount |-> promoDiscount]

calculateTotals(client, items, code) ==
    LET subTotal == subTotalOf(items)
        tierDiscount == tierDiscountOf(client, subTotal)
        promoDiscount == promoDiscountOf(code, subTotal)
        totalDiscount == tierDiscount + promoDiscount
        taxableAmount == subTotal - totalDiscount
        tax == taxOf(subTotal, totalDiscount)
        totalAmount == taxableAmount + tax
    IN [subTotal |-> subTotal, totalDiscount |-> totalDiscount, tax |-> tax,
        totalAmount |-> totalAmount, tierDiscount |-> tierDiscount,
        promoDiscount |-> promoDiscount]

\* the wizard renders its content (no spinner)
WizardRendered(s) == route[s] = "createOrder" /\ ~loading[s]

\* products.filter(... && !orderItems.find(item => item.productId === product.id))
filteredProducts(s) ==
    {p \in products[s] :
        ~\E i \in 1..Len(orderItems[s]) : orderItems[s][i].productId = p.id}

\* the Next button enabled at step 2 whatever the lines
NextEnabled_NoItemsCheck(s) ==
    /\ step[s] < 3
    /\ ~(step[s] = 1 /\ selectedClient[s] = NoClient)

\* the Next button of the wizard
NextEnabled(s) ==
    /\ step[s] < 3
    /\ ~( \/ (step[s] = 1 /\ selectedClient[s] = NoClient)
          \/ (step[s] = 2 /\ orderItems[s] = <<>>) )

\* the Create Order button of the wizard
SubmitOrderEnabled(s) ==
    /\ ~(step[s] < 3)
    /\ ~(submitting[s] \/ orderItems[s] = <<>>)

\* the request body carrying the total of the preview as well
orderData_WithTotal(s) ==
    [clientId |-> selectedClient[s].id,
     items |-> [i \in 1..Len(orderItems[s]) |->
                  [productId |-> orderItems[s][i].productId,
                   quantity |-> orderItems[s][i].quantity]],
     promoCode |-> promoCode[s],
     totalAmount |-> totals[s].totalAmount]

\* the request body built by handleSubmit
orderData(s) ==
    LET base == [clientId |-> selectedClient[s].id,
                 items |-> [i \in 1..Len(orderItems[s]) |->
                              [productId |-> orderItems[s][i].productId,
                               quantity |-> orderItems[s][i].quantity]]]
    IN IF promoCode[s] # <<>>
       THEN [f \in {"clientId", "items", "promoCode"} |->
               IF f = "promoCode" THEN promoCode[s] ELSE base[f]]
       ELSE base

\* ------------------------------------------------ engine (from the spec)
clearedSum(ps) == SumAmounts(ps, {"ENCAISSE"})

nonRejectedSum(ps) == SumAmounts(ps, {"EN_ATTENTE", "ENCAISSE"})

remainingBalance == OrderTotal - clearedSum(srvPayments)

\* ADMIN-only mutations
SrvAuthorized(s) == user[s] = "ADMIN"

\* a confirmation accepted whatever the status of the order
SrvConfirmAllowed_AnyStatus(s) == SrvAuthorized(s) /\ remainingBalance <= 0

\* PENDING -> CONFIRMED
SrvConfirmAllowed(s) ==
    SrvAuthorized(s) /\ srvStatus = "PENDING" /\ remainingBalance <= 0

\* PENDING -> CANCELED
SrvCancelAllowed(s) == SrvAuthorized(s) /\ srvStatus = "PENDING"

\* EN_ATTENTE -> ENCAISSE, never against a canceled or rejected order
SrvEncashAllowed(s, i) ==
    /\ SrvAuthorized(s)
    /\ i \in 1..Len(srvPayments)
    /\ srvPayments[i].paymentStatus = "EN_ATTENTE"
    /\ srvStatus \notin {"CANCELED", "REJECTED"}

\* EN_ATTENTE -> REJETE
SrvRejectAllowed(s, i) ==
    /\ SrvAuthorized(s)
    /\ i \in 1..Len(srvPayments)
    /\ srvPayments[i].paymentStatus = "EN_ATTENTE"

present(v) == v # Absent /\ v # ""

\* POST /payments validation without the bound the ledger sets
SrvCreateAllowed_NoLedgerBound(s, d) ==
    /\ user[s] # "null"
    /\ d.amount > 0
    /\ d.amount <= OrderTotal
    /\ (d.paymentMethod = "CHEQUE" =>
            present(d.bank) /\ present(d.chequeNumber) /\ present(d.dueDate))
    /\ (d.paymentMethod = "VIREMENT" => present(d.bank))

\* POST /payments validation
SrvCreateAllowed(s, d) ==
    /\ user[s] # "null"
    /\ d.amount > 0
    /\ d.amount <= OrderTotal - nonRejectedSum(srvPayments)
    /\ (d.paymentMethod = "CHEQUE" =>
            present(d.bank) /\ present(d.chequeNumber) /\ present(d.dueDate))
    /\ (d.paymentMethod = "VIREMENT" => present(d.bank))

\* POST /orders accepted whatever the stock
SrvPlaceAllowed_NoStockCheck(s, d) ==
    /\ user[s] # "null"
    /\ \E c \in SrvClients : c.id = d.clientId
    /\ d.items # <<>>
    /\ \A i \in 1..Len(d.items) :
          /\ d.items[i].productId \in ProductIds
          /\ d.items[i].quantity > 0

\* POST /orders: every line names a product in sufficient stock
SrvPlaceAllowed(s, d) ==
    /\ user[s] # "null"
    /\ \E c \in SrvClients : c.id = d.clientId
    /\ d.items # <<>>
    /\ \A i \in 1..Len(d.items) :
          /\ d.items[i].productId \in ProductIds
          /\ d.items[i].quantity > 0
          /\ d.items[i].quantity <= srvStock[d.items[i].productId]

\* the quantity the lines ask of product p
RECURSIVE quantityOf(_, _)
quantityOf(items, p) ==
    IF items = <<>> THEN 0
    ELSE (IF Head(items).productId = p THEN Head(items).quantity ELSE 0)
         + quantityOf(Tail(items), p)

\* StockLedger.reserve: the stock left once the lines are reserved
reserve(stock, items) ==
    [p \in DOMAIN stock |-> stock[p] - quantityOf(items, p)]

\* StockLedger.release without effect
release_Nothing(stock, items) == stock

\* StockLedger.release: the stock once the lines are given back
release(stock, items) ==
    [p \in DOMAIN stock |-> stock[p] + quantityOf(items, p)]

\* the lines of the order of the detail page: the order placed last (an
\* order that was not placed through the wizard holds no reservation)
OrderLines == IF srvOrders = <<>> THEN <<>> ELSE srvOrders[Len(srvOrders)]

\* OrderLifecycle, on CONFIRMED: totalSpent += order.total, totalOrders += 1
confirmed(agg) ==
    [totalSpent |-> agg.totalSpent + OrderTotal,
     totalOrders |-> agg.totalOrders + 1]

\* ------------------------------------------------------------------ Init
\* AuthContext once the session check of the mount has settled, nothing of
\* it in flight; no order of the client confirmed
SettledAuth ==
    /\ srvAgg = NoAggregates
    /\ authLoading = [s \in Sessions |-> FALSE]
    /\ authCheck = [s \in Sessions |-> "idle"]
    /\ loginReq = [s \in Sessions |-> NoLogin]
    /\ logoutReq = [s \in Sessions |-> "idle"]
    /\ srvSession = user
    /\ isLoading = [s \in Sessions |-> FALSE]
    /\ loginError = [s \in Sessions |-> FALSE]

\* the form of an AddPaymentPage as it mounts
NoPaymentForm == formData = [s \in Sessions |-> InitialForm]

\* the state of a ProductsListPage that is not mounted
NoProductsList ==
    /\ currentPage = [s \in Sessions |-> 0]
    /\ showDeleted = [s \in Sessions |-> FALSE]
    /\ totalPages = [s \in Sessions |-> 0]
    /\ totalElements = [s \in Sessions |-> 0]
    /\ listProducts = [s \in Sessions |-> {}]
    /\ listFetches = [s \in Sessions |-> <<>>]
    /\ listAction = [s \in Sessions |-> NoListAction]
    /\ srvDeleted = {}

Init ==
    /\ user \in [Sessions -> Role \cup {"null"}]
    /\ route = [s \in Sessions |-> "none"]
    /\ srvStatus = "PENDING"
    /\ srvPayments = <<>>
    /\ order = [s \in Sessions |-> "null"]
    /\ payments = [s \in Sessions |-> <<>>]
    /\ loading = [s \in Sessions |-> FALSE]
    /\ error = [s \in Sessions |-> FALSE]
    /\ actionLoading = [s \in Sessions |-> FALSE]
    /\ submitting = [s \in Sessions |-> FALSE]
    /\ success = [s \in Sessions |-> FALSE]
    /\ errors = [s \in Sessions |-> {}]
    /\ fetch = [s \in Sessions |-> NoFetch]
    /\ request = [s \in Sessions |-> NoRequest]
    /\ step = [s \in Sessions |-> 1]
    /\ clients = [s \in Sessions |-> {}]
    /\ products = [s \in Sessions |-> {}]
    /\ selectedClient = [s \in Sessions |-> NoClient]
    /\ orderItems = [s \in Sessions |-> <<>>]
    /\ promoCode = [s \in Sessions |-> <<>>]
    /\ totals = [s \in Sessions |-> NoTotals]
    /\ srvOrders = <<>>
    /\ srvStock = InitialStock
    /\ SettledAuth
    /\ NoProductsList
    /\ NoPaymentForm

\* --------------------------------------------------------- OrderDetailPage
\* ProtectedRoute lets an authenticated user mount /orders/:id; the mount
\* effect runs loadOrderData
OpenOrderDetail(s) ==
    /\ user[s] # "null"
    /\ request[s].kind = "none"
    /\ ~loading[s]
    /\ route' = [route EXCEPT ![s] = "detail"]
    /\ order' = [order EXCEPT ![s] = "null"]
    /\ payments' = [payments EXCEPT ![s] = <<>>]
    /\ loading' = [loading EXCEPT ![s] = TRUE]
    /\ error' = [error EXCEPT ![s] = FALSE]
    /\ actionLoading' = [actionLoading EXCEPT ![s] = FALSE]
    /\ submitting' = [submitting EXCEPT ![s] = FALSE]
    /\ success' = [success EXCEPT ![s] = FALSE]
    /\ errors' = [errors EXCEPT ![s] = {}]
    /\ fetch' = [fetch EXCEPT ![s] = NoFetch]
    /\ UNCHANGED <<user, extVars, wizVars, srvVars, request>>

\* loadOrderData, up to the await of Promise.all
StartLoad(s) ==
    /\ loading' = [loading EXCEPT ![s] = TRUE]
    /\ error' = [error EXCEPT ![s] = FALSE]
    /\ fetch' = [fetch EXCEPT ![s] = NoFetch]

\* loadOrderData, after both GETs have answered
FinishLoad(s, o, p) ==
    /\ order' = [order EXCEPT ![s] = o]
    /\ payments' = [payments EXCEPT ![s] = p]
    /\ loading' = [loading EXCEPT ![s] = FALSE]
    /\ fetch' = [fetch EXCEPT ![s] = NoFetch]

\* GET /orders/{id} answers
LoadOrderResponse(s) ==
    /\ route[s] = "detail" /\ loading[s] /\ ~fetch[s].oDone
    /\ IF fetch[s].pDone
       THEN FinishLoad(s, srvStatus, fetch[s].p)
       ELSE /\ fetch' = [fetch EXCEPT ![s].oDone = TRUE, ![s].o = srvStatus]
            /\ UNCHANGED <<order, payments, loading>>
    /\ UNCHANGED <<user, extVars, wizVars, route, srvVars, error, actionLoading, submitting,
                   success, errors, request>>

\* GET /payments/order/{id} answers
LoadPaymentsResponse(s) ==
    /\ route[s] = "detail" /\ loading[s] /\ ~fetch[s].pDone
    /\ IF fetch[s].oDone
       THEN FinishLoad(s, fetch[s].o, srvPayments)
       ELSE /\ fetch' = [fetch EXCEPT ![s].pDone = TRUE, ![s].p = srvPayments]
            /\ UNCHANGED <<order, payments, loading>>
    /\ UNCHANGED <<user, extVars, wizVars, route, srvVars, error, actionLoading, submitting,
                   success, errors, request>>

\* one of the two GETs fails: catch and finally of loadOrderData
LoadFail(s) ==
    /\ route[s] = "detail" /\ loading[s]
    /\ error' = [error EXCEPT ![s] = TRUE]
    /\ loading' = [loading EXCEPT ![s] = FALSE]
    /\ fetch' = [fetch EXCEPT ![s] = NoFetch]
    /\ UNCHANGED <<user, extVars, wizVars, route, srvVars, order, payments, actionLoading,
                   submitting, success, errors, request>>

\* the Try Again button of the error view
TryAgain(s) ==
    /\ DetailErrorView(s)
    /\ request[s].kind = "none"
    /\ StartLoad(s)
    /\ UNCHANGED <<user, extVars, wizVars, route, srvVars, order, payments, actionLoading,
                   submitting, success, errors, request>>

\* handleConfirm: the click, the accepted dialog, setActionLoading(true) and
\* the PUT /orders/{id}/validate request
handleConfirm(s) ==
    /\ DetailRendered(s)
    /\ request[s].kind = "none"
    /\ HeaderConfirmEnabled(s) \/ AdminConfirmEnabled(s)
    /\ actionLoading' = [actionLoading EXCEPT ![s] = TRUE]
    /\ request' = [request EXCEPT ![s] = [NoRequest EXCEPT !.kind = "confirm"]]
    /\ UNCHANGED <<user, extVars, wizVars, route, srvVars, order, payments, loading, error,
                   submitting, success, errors, fetch>>

\* handleCancel: the click, the accepted dialog and PUT /orders/{id}/cancel
handleCancel(s) ==
    /\ DetailRendered(s)
    /\ request[s].kind = "none"
    /\ HeaderCancelEnabled(s) \/ AdminCancelEnabled(s)
    /\ actionLoading' = [actionLoading EXCEPT ![s] = TRUE]
    /\ request' = [request EXCEPT ![s] = [NoRequest EXCEPT !.kind = "cancel"]]
    /\ UNCHANGED <<user, extVars, wizVars, route, srvVars, order, payments, loading, error,
                   submitting, success, errors, fetch>>

\* handleEncash(payment.id): the click, the dialog and PUT /payments/{id}/encash
handleEncash(s, i) ==
    /\ DetailRendered(s)
    /\ request[s].kind = "none"
    /\ i \in 1..Len(payments[s])
    /\ PaymentActionsEnabled(s, i)
    /\ actionLoading' = [actionLoading EXCEPT ![s] = TRUE]
    /\ request' = [request EXCEPT
                     ![s] = [NoRequest EXCEPT !.kind = "encash", !.id = i]]
    /\ UNCHANGED <<user, extVars, wizVars, route, srvVars, order, payments, loading, error,
                   submitting, success, errors, fetch>>

\* handleReject(payment.id): the click, the dialog and PUT /payments/{id}/reject
handleReject(s, i) ==
    /\ DetailRendered(s)
    /\ request[s].kind = "none"
    /\ i \in 1..Len(payments[s])
    /\ PaymentActionsEnabled(s, i)
    /\ actionLoading' = [actionLoading EXCEPT ![s] = TRUE]
    /\ request' = [request EXCEPT
                     ![s] = [NoRequest EXCEPT !.kind = "reject", !.id = i]]
    /\ UNCHANGED <<user, extVars, wizVars, route, srvVars, order, payments, loading, error,
                   submitting, success, errors, fetch>>

\* the engine confirms; handleConfirm resumes: setOrder(updated), finally
ConfirmOk(s) ==
    /\ request[s].kind = "confirm"
    /\ SrvConfirmAllowed(s)
    /\ srvStatus' = "CONFIRMED"
    /\ srvAgg' = confirmed(srvAgg)
    /\ order' = [order EXCEPT ![s] = "CONFIRMED"]
    /\ actionLoading' = [actionLoading EXCEPT ![s] = FALSE]
    /\ request' = [request EXCEPT ![s] = NoRequest]
    /\ UNCHANGED <<user, authVars, listVars, formData, wizVars, route,
                   srvPayments, payments, loading, error, submitting, success,
                   errors, fetch>>

\* the engine cancels; handleCancel resumes: setOrder(updated), finally
CancelOk(s) ==
    /\ request[s].kind = "cancel"
    /\ SrvCancelAllowed(s)
    /\ srvStatus' = "CANCELED"
    /\ srvStock' = release(srvStock, OrderLines)
    /\ order' = [order EXCEPT ![s] = "CANCELED"]
    /\ actionLoading' = [actionLoading EXCEPT ![s] = FALSE]
    /\ request' = [request EXCEPT ![s] = NoRequest]
    /\ UNCHANGED <<user, extVars, wizPage, srvOrders, route, srvPayments, payments, loading, error,
                   submitting, success, errors, fetch>>

\* the engine encashes; handleEncash resumes: loadOrderData(), finally
EncashOk(s) ==
    /\ request[s].kind = "encash"
    /\ SrvEncashAllowed(s, request[s].id)
    /\ srvPayments' = [srvPayments EXCEPT
                         ![request[s].id].paymentStatus = "ENCAISSE"]
    /\ StartLoad(s)
    /\ actionLoading' = [actionLoading EXCEPT ![s] = FALSE]
    /\ request' = [request EXCEPT ![s] = NoRequest]
    /\ UNCHANGED <<user, extVars, wizVars, route, srvStatus, order, payments, submitting,
                   success, errors>>

\* the engine rejects the payment; handleReject resumes: loadOrderData(), finally
RejectOk(s) ==
    /\ request[s].kind = "reject"
    /\ SrvRejectAllowed(s, request[s].id)
    /\ srvPayments' = [srvPayments EXCEPT
                         ![request[s].id].paymentStatus = "REJETE"]
    /\ StartLoad(s)
    /\ actionLoading' = [actionLoading EXCEPT ![s] = FALSE]
    /\ request' = [request EXCEPT ![s] = NoRequest]
    /\ UNCHANGED <<user, extVars, wizVars, route, srvStatus, order, payments, submitting,
                   success, errors>>

\* what the engine answers to the request in flight
SrvAllows(s) ==
    CASE request[s].kind = "confirm" -> SrvConfirmAllowed(s)
      [] request[s].kind = "cancel" -> SrvCancelAllowed(s)
      [] request[s].kind = "encash" -> SrvEncashAllowed(s, request[s].id)
      [] request[s].kind = "reject" -> SrvRejectAllowed(s, request[s].id)
      [] request[s].kind = "create" -> SrvCreateAllowed(s, request[s].data)
      [] OTHER -> FALSE

\* the catch of the four handlers without their finally
ActionCatch_NoFinally(s) ==
    /\ request' = [request EXCEPT ![s] = NoRequest]
    /\ UNCHANGED <<user, extVars, wizVars, route, srvVars, order, payments, loading, error,
                   actionLoading, submitting, success, errors, fetch>>

\* catch and finally of the four handlers of the order detail page
ActionCatch(s) ==
    /\ actionLoading' = [actionLoading EXCEPT ![s] = FALSE]
    /\ request' = [request EXCEPT ![s] = NoRequest]
    /\ UNCHANGED <<user, extVars, wizVars, route, srvVars, order, payments, loading, error,
                   submitting, success, errors, fetch>>

\* the engine refuses the request with a structured error
ActionRefused(s) ==
    /\ request[s].kind \in {"confirm", "cancel", "encash", "reject"}
    /\ ~SrvAllows(s)
    /\ ActionCatch(s)

\* the request fails before it reaches the engine
ActionNetworkError(s) ==
    /\ request[s].kind \in {"confirm", "cancel", "encash", "reject"}
    /\ ActionCatch(s)

\* PENDING -> REJECTED, a transition of the engine itself
SystemReject ==
    /\ srvStatus = "PENDING"
    /\ srvStatus' = "REJECTED"
    /\ srvStock' = release(srvStock, OrderLines)
    /\ UNCHANGED <<user, extVars, wizPage, srvOrders, route, srvPayments, order, payments, loading, error,
                   actionLoading, submitting, success, errors, fetch, request>>

\* ---------------------------------------------------------- AddPaymentPage
\* ProtectedRoute lets an authenticated user mount the add payment page; the
\* mount effect runs loadOrder
OpenAddPayment(s) ==
    /\ user[s] # "null"
    /\ request[s].kind = "none"
    /\ ~loading[s]
    /\ route' = [route EXCEPT ![s] = "addPayment"]
    /\ order' = [order EXCEPT ![s] = "null"]
    /\ payments' = [payments EXCEPT ![s] = <<>>]
    /\ loading' = [loading EXCEPT ![s] = TRUE]
    /\ error' = [error EXCEPT ![s] = FALSE]
    /\ actionLoading' = [actionLoading EXCEPT ![s] = FALSE]
    /\ submitting' = [submitting EXCEPT ![s] = FALSE]
    /\ success' = [success EXCEPT ![s] = FALSE]
    /\ errors' = [errors EXCEPT ![s] = {}]
    /\ fetch' = [fetch EXCEPT ![s] = NoFetch]
    /\ formData' = [formData EXCEPT ![s] = InitialForm]
    /\ UNCHANGED <<user, srvAgg, authVars, listVars, wizVars, srvVars, request>>

\* loadOrder: GET /orders/{id} answers
LoadOrderOk(s) ==
    /\ route[s] = "addPayment" /\ loading[s]
    /\ order' = [order EXCEPT ![s] = srvStatus]
    /\ loading' = [loading EXCEPT ![s] = FALSE]
    /\ UNCHANGED <<user, extVars, wizVars, route, srvVars, payments, error, actionLoading,
                   submitting, success, errors, fetch, request>>

\* loadOrder: GET /orders/{id} fails
LoadOrderFail(s) ==
    /\ route[s] = "addPayment" /\ loading[s]
    /\ error' = [error EXCEPT ![s] = TRUE]
    /\ loading' = [loading EXCEPT ![s] = FALSE]
    /\ UNCHANGED <<user, extVars, wizVars, route, srvVars, order, payments, actionLoading,
                   submitting, success, errors, fetch, request>>

\* handleSubmit with the form holding fd: validate(), then the POST /payments
handleSubmit(s, fd) ==
    /\ FormRendered(s)
    /\ ~submitting[s]
    /\ request[s].kind = "none"
    /\ errors' = [errors EXCEPT ![s] = newErrors(s, fd)]
    /\ IF validate(s, fd)
       THEN /\ submitting' = [submitting EXCEPT ![s] = TRUE]
            /\ error' = [error EXCEPT ![s] = FALSE]
            /\ success' = [success EXCEPT ![s] = FALSE]
            /\ request' = [request EXCEPT
                             ![s] = [kind |-> "create", id |-> 0,
                                     data |-> paymentData(fd)]]
       ELSE UNCHANGED <<submitting, error, success, request>>
    /\ UNCHANGED <<user, extVars, wizVars, route, srvVars, order, payments, loading,
                   actionLoading, fetch>>

\* the fields of the form that are rendered for the method selected
Rendered(fd, field) ==
    CASE field = "bank" -> fd.paymentMethod \in {"CHEQUE", "VIREMENT"}
      [] field \in {"chequeNumber", "dueDate"} -> fd.paymentMethod = "CHEQUE"
      [] OTHER -> TRUE

\* handleChange(field, value): a method button or an input of the form
handleChange(s, field, value) ==
    /\ FormRendered(s)
    /\ Rendered(formData[s], field)
    /\ formData[s][field] # value
    /\ formData' = [formData EXCEPT ![s][field] = value]
    /\ errors' = [errors EXCEPT ![s] = @ \ {field}]
    /\ UNCHANGED <<user, srvAgg, authVars, listVars, wizVars, route, srvVars,
                   order, payments, loading, error, actionLoading, submitting,
                   success, fetch, request>>

\* the form is submitted as it stands
submitForm(s) == handleSubmit(s, formData[s])

\* the engine records the payment; handleSubmit resumes: setSuccess(true), finally
CreateOk(s) ==
    /\ request[s].kind = "create"
    /\ SrvCreateAllowed(s, request[s].data)
    /\ Len(srvPayments) < MaxPayments
    /\ srvPayments' = Append(srvPayments,
                             [amount |-> request[s].data.amount,
                              paymentStatus |-> "EN_ATTENTE"])
    /\ success' = [success EXCEPT ![s] = TRUE]
    /\ submitting' = [submitting EXCEPT ![s] = FALSE]
    /\ request' = [request EXCEPT ![s] = NoRequest]
    /\ UNCHANGED <<user, extVars, wizVars, route, srvStatus, order, payments, loading, error,
                   actionLoading, errors, fetch>>

\* catch and finally of handleSubmit
SubmitCatch(s) ==
    /\ error' = [error EXCEPT ![s] = TRUE]
    /\ submitting' = [submitting EXCEPT ![s] = FALSE]
    /\ request' = [request EXCEPT ![s] = NoRequest]
    /\ UNCHANGED <<user, extVars, wizVars, route, srvVars, order, payments, loading,
                   actionLoading, success, errors, fetch>>

\* the engine answers the POST with a ValidationError
CreateRefused(s) ==
    /\ request[s].kind = "create"
    /\ ~SrvAllows(s)
    /\ SubmitCatch(s)

\* the POST fails before it reaches the engine
CreateNetworkError(s) ==
    /\ request[s].kind = "create"
    /\ SubmitCatch(s)

\* the timer set after a successful submit navigates back to the order
Redirect(s) ==
    /\ route[s] = "addPayment"
    /\ success[s]
    /\ OpenOrderDetail(s)

\* --------------------------------------------------------- CreateOrderPage
\* the state of a CreateOrderPage that is not mounted
WizardUnmounted(s) ==
    /\ step' = [step EXCEPT ![s] = 1]
    /\ clients' = [clients EXCEPT ![s] = {}]
    /\ products' = [products EXCEPT ![s] = {}]
    /\ selectedClient' = [selectedClient EXCEPT ![s] = NoClient]
    /\ orderItems' = [orderItems EXCEPT ![s] = <<>>]
    /\ promoCode' = [promoCode EXCEPT ![s] = <<>>]
    /\ totals' = [totals EXCEPT ![s] = NoTotals]

\* const totals = calculateTotals(), evaluated by the render that follows a
\* change of state
Render(s) ==
    totals' = [totals EXCEPT
                 ![s] = calculateTotals(selectedClient'[s], orderItems'[s],
                                        promoCode'[s])]

\* ProtectedRoute lets an authenticated user mount /orders/new; the mount
\* effect runs loadData
OpenCreateOrder(s) ==
    /\ user[s] # "null"
    /\ request[s].kind = "none"
    /\ ~loading[s]
    /\ route' = [route EXCEPT ![s] = "createOrder"]
    /\ WizardUnmounted(s)
    /\ order' = [order EXCEPT ![s] = "null"]
    /\ payments' = [payments EXCEPT ![s] = <<>>]
    /\ loading' = [loading EXCEPT ![s] = TRUE]
    /\ error' = [error EXCEPT ![s] = FALSE]
    /\ actionLoading' = [actionLoading EXCEPT ![s] = FALSE]
    /\ submitting' = [submitting EXCEPT ![s] = FALSE]
    /\ success' = [success EXCEPT ![s] = FALSE]
    /\ errors' = [errors EXCEPT ![s] = {}]
    /\ fetch' = [fetch EXCEPT ![s] = NoFetch]
    /\ UNCHANGED <<user, extVars, srvVars, request, srvOrders, srvStock>>

\* loadData: both GETs have answered
loadData(s) ==
    /\ route[s] = "createOrder" /\ loading[s]
    /\ clients' = [clients EXCEPT ![s] = SrvClients]
    /\ products' = [products EXCEPT
                      ![s] = {[id |-> p.id, price |-> p.price,
                               stock |-> srvStock[p.id]] :
                              p \in {q \in SrvProducts : srvStock[q.id] > 0}}]
    /\ loading' = [loading EXCEPT ![s] = FALSE]
    /\ UNCHANGED <<user, extVars, route, srvVars, order, payments, error, actionLoading,
                   submitting, success, errors, fetch, request, step,
                   selectedClient, orderItems, promoCode, srvOrders, srvStock>>
    /\ Render(s)

\* loadData: catch and finally
loadDataFail(s) ==
    /\ route[s] = "createOrder" /\ loading[s]
    /\ error' = [error EXCEPT ![s] = TRUE]
    /\ loading' = [loading EXCEPT ![s] = FALSE]
    /\ UNCHANGED <<user, extVars, route, srvVars, order, payments, actionLoading,
                   submitting, success, errors, fetch, request, step, clients,
                   products, selectedClient, orderItems, promoCode, srvOrders,
                   srvStock>>
    /\ Render(s)

\* what the wizard actions below leave alone
WizardFrame ==
    UNCHANGED <<user, extVars, route, srvVars, order, payments, loading, error,
                actionLoading, submitting, success, errors, fetch, request,
                clients, products, srvOrders, srvStock>>

\* step 1: the click on a client of the list
selectClient(s, c) ==
    /\ WizardRendered(s)
    /\ step[s] = 1
    /\ c \in clients[s]
    /\ selectedClient' = [selectedClient EXCEPT ![s] = c]
    /\ step' = [step EXCEPT ![s] = 2]
    /\ UNCHANGED <<orderItems, promoCode>>
    /\ WizardFrame
    /\ Render(s)

\* the items of step 2 are rendered
ItemsStep(s) ==
    WizardRendered(s) /\ step[s] = 2 /\ selectedClient[s] # NoClient

\* step 2: the + button of a product of the list
addItem(s, product) ==
    /\ ItemsStep(s)
    /\ product \in filteredProducts(s)
    /\ LET items == orderItems[s]
           found == {i \in 1..Len(items) : items[i].productId = product.id}
       IN orderItems' =
            [orderItems EXCEPT
               ![s] = IF found # {}
                      THEN [i \in 1..Len(items) |->
                              IF i \in found /\ items[i].quantity < product.stock
                              THEN [items[i] EXCEPT !.quantity = @ + 1]
                              ELSE items[i]]
                      ELSE Append(items,
                                  [productId |-> product.id, quantity |-> 1,
                                   price |-> product.price,
                                   stock |-> product.stock])]
    /\ UNCHANGED <<step, selectedClient, promoCode>>
    /\ WizardFrame
    /\ Render(s)

Max(a, b) == IF a >= b THEN a ELSE b

Min(a, b) == IF a <= b THEN a ELSE b

\* newQuantity without the cap at the stock of the line
newQuantity_NoStockCap(item, delta) == Max(1, item.quantity + delta)

\* updateQuantity: Math.max(1, Math.min(item.stock, item.quantity + delta))
newQuantity(item, delta) == Max(1, Min(item.stock, item.quantity + delta))

\* step 2: the + and - buttons of a line
updateQuantity(s, productId, delta) ==
    /\ ItemsStep(s)
    /\ \E i \in 1..Len(orderItems[s]) : orderItems[s][i].productId = productId
    /\ LET items == orderItems[s]
       IN orderItems' =
            [orderItems EXCEPT
               ![s] = [i \in 1..Len(items) |->
                         IF items[i].productId = productId
                         THEN [items[i] EXCEPT
                                 !.quantity = newQuantity(items[i], delta)]
                         ELSE items[i]]]
    /\ UNCHANGED <<step, selectedClient, promoCode>>
    /\ WizardFrame
    /\ Render(s)

\* step 2: the bin button of a line
removeItem(s, productId) ==
    /\ ItemsStep(s)
    /\ \E i \in 1..Len(orderItems[s]) : orderItems[s][i].productId = productId
    /\ orderItems' =
         [orderItems EXCEPT
            ![s] = SelectSeq(@, LAMBDA item : item.productId # productId)]
    /\ UNCHANGED <<step, selectedClient, promoCode>>
    /\ WizardFrame
    /\ Render(s)

\* step 2: onChange of the promo code input
setPromoCode(s, typed) ==
    /\ ItemsStep(s)
    /\ promoCode' = [promoCode EXCEPT ![s] = toUpperCase(typed)]
    /\ UNCHANGED <<step, selectedClient, orderItems>>
    /\ WizardFrame
    /\ Render(s)

\* the Previous button
Previous(s) ==
    /\ WizardRendered(s)
    /\ ~(step[s] = 1)
    /\ step' = [step EXCEPT ![s] = Max(1, step[s] - 1)]
    /\ UNCHANGED <<selectedClient, orderItems, promoCode>>
    /\ WizardFrame
    /\ Render(s)

\* the Next button
NextStep(s) ==
    /\ WizardRendered(s)
    /\ NextEnabled(s)
    /\ step' = [step EXCEPT ![s] = step[s] + 1]
    /\ UNCHANGED <<selectedClient, orderItems, promoCode>>
    /\ WizardFrame
    /\ Render(s)

\* handleSubmit of the wizard, up to the POST /orders
handleSubmitOrder(s) ==
    /\ WizardRendered(s)
    /\ SubmitOrderEnabled(s)
    /\ request[s].kind = "none"
    /\ ~(selectedClient[s] = NoClient \/ orderItems[s] = <<>>)
    /\ submitting' = [submitting EXCEPT ![s] = TRUE]
    /\ error' = [error EXCEPT ![s] = FALSE]
    /\ request' = [request EXCEPT
                     ![s] = [kind |-> "createOrder", id |-> 0,
                             data |-> orderData(s)]]
    /\ UNCHANGED <<user, extVars, route, srvVars, order, payments, loading,
                   actionLoading, success, errors, fetch, step, clients,
                   products, selectedClient, orderItems, promoCode, srvOrders,
                   srvStock>>
    /\ Render(s)

\* the engine places the order
SrvPlace(s) ==
    /\ SrvPlaceAllowed(s, request[s].data)
    /\ srvOrders' = Append(srvOrders, request[s].data.items)
    /\ srvStock' = reserve(srvStock, request[s].data.items)

\* the order is placed; handleSubmit resumes: navigate to the order created
CreateOrderOk(s) ==
    /\ request[s].kind = "createOrder"
    /\ SrvPlace(s)
    /\ route' = [route EXCEPT ![s] = "detail"]
    /\ WizardUnmounted(s)
    /\ order' = [order EXCEPT ![s] = "null"]
    /\ payments' = [payments EXCEPT ![s] = <<>>]
    /\ loading' = [loading EXCEPT ![s] = TRUE]
    /\ error' = [error EXCEPT ![s] = FALSE]
    /\ submitting' = [submitting EXCEPT ![s] = FALSE]
    /\ request' = [request EXCEPT ![s] = NoRequest]
    /\ UNCHANGED <<user, extVars, srvVars, actionLoading, success, errors, fetch>>

\* catch and finally of the wizard's handleSubmit
SubmitOrderCatch(s) ==
    /\ error' = [error EXCEPT ![s] = TRUE]
    /\ submitting' = [submitting EXCEPT ![s] = FALSE]
    /\ request' = [request EXCEPT ![s] = NoRequest]
    /\ UNCHANGED <<user, extVars, route, srvVars, order, payments, loading,
                   actionLoading, success, errors, fetch, step, clients,
                   products, selectedClient, orderItems, promoCode>>
    /\ Render(s)

\* the engine refuses the order
CreateOrderRefused(s) ==
    /\ request[s].kind = "createOrder"
    /\ ~SrvPlaceAllowed(s, request[s].data)
    /\ UNCHANGED <<srvOrders, srvStock>>
    /\ SubmitOrderCatch(s)

\* the POST fails before it reaches the engine
CreateOrderNetworkError(s) ==
    /\ request[s].kind = "createOrder"
    /\ UNCHANGED <<srvOrders, srvStock>>
    /\ SubmitOrderCatch(s)

\* the engine places the order and its answer does not arrive (a timeout)
CreateOrderTimeout(s) ==
    /\ request[s].kind = "createOrder"
    /\ SrvPlace(s)
    /\ SubmitOrderCatch(s)

\* ------------------------------------------------------------ AuthContext
\* the paths of App that are wrapped in ProtectedRoute
ProtectedPaths == {"home", "products", "createOrder", "detail", "addPayment"}

\* what is typed in the login form: the credentials of an administrator, of
\* a client, or wrong ones
Credentials == {"ADMIN", "CLIENT", "bad"}

\* isAuthenticated: !!user
isAuthenticated(u) == u # "null"

\* ProtectedRoute without the test of loading
ProtectedRoute_NoLoadingCheck(isAuth, isLoad) ==
    IF ~isAuth THEN "redirect" ELSE "children"

\* ProtectedRoute: the spinner, <Navigate to="/login">, or the children
ProtectedRoute(isAuth, isLoad) ==
    IF isLoad THEN "spinner"
    ELSE IF ~isAuth THEN "redirect"
    ELSE "children"

\* what ProtectedRoute renders for the session
View(s) == ProtectedRoute(isAuthenticated(user[s]), authLoading[s])

\* the render that follows a change of user, loading or path: on a path
\* wrapped in ProtectedRoute, <Navigate replace> moves the session to /login
Routed(s, path) ==
    route' = [route EXCEPT
                ![s] = IF /\ path \in ProtectedPaths
                          /\ ProtectedRoute(isAuthenticated(user'[s]),
                                            authLoading'[s]) = "redirect"
                       THEN "login"
                       ELSE path]

\* everything but AuthContext, the login page and the path
AuthFrame ==
    UNCHANGED <<srvVars, order, payments, loading, error, actionLoading,
                submitting, success, errors, fetch, request, wizVars, srvAgg,
                listVars, formData>>

\* the user follows a link or the history to another path of the app
Goto(s, path) ==
    /\ route[s] \in {"login", "home"}
    /\ route[s] # path
    /\ UNCHANGED <<user, authVars>>
    /\ Routed(s, path)
    /\ AuthFrame

\* GET /auth/me of checkAuth is answered by the engine
SrvMe(s) ==
    /\ authCheck[s] = "sent"
    /\ authCheck' = [authCheck EXCEPT
                       ![s] = IF srvSession[s] = "null" THEN "401"
                              ELSE srvSession[s]]
    /\ UNCHANGED <<user, route, authLoading, loginReq, logoutReq, srvSession,
                   isLoading, loginError>>
    /\ AuthFrame

\* checkAuth resumes with the current user: setUser(currentUser), finally
checkAuthOk(s) ==
    /\ authCheck[s] \in Role
    /\ user' = [user EXCEPT ![s] = authCheck[s]]
    /\ authLoading' = [authLoading EXCEPT ![s] = FALSE]
    /\ authCheck' = [authCheck EXCEPT ![s] = "idle"]
    /\ UNCHANGED <<loginReq, logoutReq, srvSession, isLoading, loginError>>
    /\ Routed(s, route[s])
    /\ AuthFrame

\* checkAuth: catch, setUser(null), and finally
checkAuthCatch(s) ==
    /\ user' = [user EXCEPT ![s] = "null"]
    /\ authLoading' = [authLoading EXCEPT ![s] = FALSE]
    /\ authCheck' = [authCheck EXCEPT ![s] = "idle"]
    /\ UNCHANGED <<loginReq, logoutReq, srvSession, isLoading, loginError>>
    /\ Routed(s, route[s])
    /\ AuthFrame

\* the engine has answered 401 to checkAuth
checkAuthRefused(s) ==
    /\ authCheck[s] = "401"
    /\ checkAuthCatch(s)

\* the GET of checkAuth fails
checkAuthNetworkError(s) ==
    /\ authCheck[s] # "idle"
    /\ checkAuthCatch(s)

\* LoginPage.handleSubmit, up to the POST /auth/login of login()
handleSubmitLogin(s, credentials) ==
    /\ route[s] = "login"
    /\ ~isLoading[s]
    /\ loginReq[s].phase = "idle"
    /\ isLoading' = [isLoading EXCEPT ![s] = TRUE]
    /\ loginError' = [loginError EXCEPT ![s] = FALSE]
    /\ loginReq' = [loginReq EXCEPT
                      ![s] = [phase |-> "login", credentials |-> credentials]]
    /\ UNCHANGED <<user, route, authLoading, authCheck, logoutReq, srvSession>>
    /\ AuthFrame

\* the engine opens the session; login() goes on with GET /auth/me
SrvLogin(s) ==
    /\ loginReq[s].phase = "login"
    /\ loginReq[s].credentials \in Role
    /\ srvSession' = [srvSession EXCEPT ![s] = loginReq[s].credentials]
    /\ loginReq' = [loginReq EXCEPT ![s].phase = "me"]
    /\ UNCHANGED <<user, route, authLoading, authCheck, logoutReq, isLoading,
                   loginError>>
    /\ AuthFrame

\* login() resumes: setUser(currentUser); handleSubmit: navigate('/'), finally
LoginOk(s) ==
    /\ loginReq[s].phase = "me"
    /\ srvSession[s] # "null"
    /\ user' = [user EXCEPT ![s] = srvSession[s]]
    /\ isLoading' = [isLoading EXCEPT ![s] = FALSE]
    /\ loginReq' = [loginReq EXCEPT ![s] = NoLogin]
    /\ UNCHANGED <<authLoading, authCheck, logoutReq, srvSession, loginError>>
    /\ Routed(s, "home")
    /\ AuthFrame

\* login() rethrows; handleSubmit: catch, setError, and finally
LoginCatch(s) ==
    /\ loginError' = [loginError EXCEPT ![s] = TRUE]
    /\ isLoading' = [isLoading EXCEPT ![s] = FALSE]
    /\ loginReq' = [loginReq EXCEPT ![s] = NoLogin]
    /\ UNCHANGED <<user, route, authLoading, authCheck, logoutReq, srvSession>>
    /\ AuthFrame

\* the engine refuses the credentials, or the session is gone when
\* GET /auth/me arrives
LoginRefused(s) ==
    /\ \/ loginReq[s].phase = "login" /\ loginReq[s].credentials = "bad"
       \/ loginReq[s].phase = "me" /\ srvSession[s] = "null"
    /\ LoginCatch(s)

\* one of the two requests of login() fails
LoginNetworkError(s) ==
    /\ loginReq[s].phase # "idle"
    /\ LoginCatch(s)

\* DashboardLayout.handleLogout, up to the POST /auth/logout of logout()
handleLogout(s) ==
    /\ route[s] \in ProtectedPaths
    /\ View(s) = "children"
    /\ logoutReq[s] # "sent"
    /\ logoutReq' = [logoutReq EXCEPT ![s] = "sent"]
    /\ UNCHANGED <<user, route, authLoading, authCheck, loginReq, srvSession,
                   isLoading, loginError>>
    /\ AuthFrame

\* the engine closes the session; logout(): finally setUser(null);
\* handleLogout: navigate('/login')
LogoutOk(s) ==
    /\ logoutReq[s] = "sent"
    /\ srvSession' = [srvSession EXCEPT ![s] = "null"]
    /\ user' = [user EXCEPT ![s] = "null"]
    /\ logoutReq' = [logoutReq EXCEPT ![s] = "idle"]
    /\ UNCHANGED <<authLoading, authCheck, loginReq, isLoading, loginError>>
    /\ Routed(s, "login")
    /\ AuthFrame

\* logout() without its finally block
LogoutNetworkError_NoFinally(s) ==
    /\ logoutReq[s] = "sent"
    /\ logoutReq' = [logoutReq EXCEPT ![s] = "rejected"]
    /\ UNCHANGED <<user, route, authLoading, authCheck, loginReq, srvSession,
                   isLoading, loginError>>
    /\ AuthFrame

\* POST /auth/logout fails; logout(): finally setUser(null), and the error
\* leaves handleLogout before its navigate
LogoutNetworkError(s) ==
    /\ logoutReq[s] = "sent"
    /\ user' = [user EXCEPT ![s] = "null"]
    /\ logoutReq' = [logoutReq EXCEPT ![s] = "rejected"]
    /\ UNCHANGED <<authLoading, authCheck, loginReq, srvSession, isLoading,
                   loginError>>
    /\ Routed(s, route[s])
    /\ AuthFrame

\* -------------------------------------------------------- ProductsListPage
\* GET /products/page: the products the request sees, in the order of id
SrvVisible(includeDeleted) ==
    IF includeDeleted THEN Catalog ELSE Catalog \ srvDeleted

\* GET /products/page?page&size&includeDeleted: the pagination envelope
SrvPage(page, includeDeleted) ==
    LET visible == SrvVisible(includeDeleted)
        rank(p) == Cardinality({q \in visible : q <= p})
    IN [content |-> {p \in visible :
                        /\ rank(p) > page * pageSize
                        /\ rank(p) <= (page + 1) * pageSize},
        totalElements |-> Cardinality(visible),
        totalPages |-> (Cardinality(visible) + pageSize - 1) \div pageSize]

\* DELETE /products/{id}
SrvDeleteAllowed(s, id) == user[s] = "ADMIN" /\ id \in Catalog \ srvDeleted

\* PUT /products/{id}/restore
SrvRestoreAllowed(s, id) == user[s] = "ADMIN" /\ id \in srvDeleted

\* the list and its rows are rendered
ListRendered(s) == route[s] = "products" /\ ~loading[s]

\* the pagination controls are rendered
PaginationRendered(s) == ListRendered(s) /\ listProducts[s] # {}

\* everything but the products list
ListFrame ==
    UNCHANGED <<user, route, srvVars, order, payments, actionLoading,
                submitting, success, errors, fetch, request, wizVars, srvAgg,
                authVars, formData>>

\* fetchProducts, up to its await: the request carries the currentPage and
\* showDeleted of the render that created the callback
fetchProducts(s, page, includeDeleted) ==
    /\ Len(listFetches[s]) < MaxFetches
    /\ loading' = [loading EXCEPT ![s] = TRUE]
    /\ error' = [error EXCEPT ![s] = FALSE]
    /\ listFetches' = [listFetches EXCEPT
                         ![s] = Append(@, [page |-> page,
                                           includeDeleted |-> includeDeleted])]

\* ProtectedRoute lets an authenticated user mount /products; the effect
\* runs fetchProducts
OpenProducts(s) ==
    /\ View(s) = "children"
    /\ route' = [route EXCEPT ![s] = "products"]
    /\ currentPage' = [currentPage EXCEPT ![s] = 0]
    /\ showDeleted' = [showDeleted EXCEPT ![s] = FALSE]
    /\ totalPages' = [totalPages EXCEPT ![s] = 0]
    /\ totalElements' = [totalElements EXCEPT ![s] = 0]
    /\ listProducts' = [listProducts EXCEPT ![s] = {}]
    /\ listAction' = [listAction EXCEPT ![s] = NoListAction]
    /\ fetchProducts(s, 0, FALSE)
    /\ UNCHANGED <<user, srvVars, order, payments, actionLoading, submitting,
                   success, errors, fetch, request, wizVars, srvAgg, authVars,
                   formData, srvDeleted>>

\* the refresh button, and Try Again of the error banner
refresh(s) ==
    /\ route[s] = "products"
    /\ fetchProducts(s, currentPage[s], showDeleted[s])
    /\ UNCHANGED <<currentPage, showDeleted, totalPages, totalElements,
                   listProducts, listAction, srvDeleted>>
    /\ ListFrame

\* the next-page button: setCurrentPage(p => Math.min(totalPages - 1, p + 1));
\* the effect runs the new fetchProducts
nextPage(s) ==
    /\ PaginationRendered(s)
    /\ ~(currentPage[s] >= totalPages[s] - 1)
    /\ currentPage' = [currentPage EXCEPT
                         ![s] = Min(totalPages[s] - 1, currentPage[s] + 1)]
    /\ fetchProducts(s, currentPage'[s], showDeleted[s])
    /\ UNCHANGED <<showDeleted, totalPages, totalElements, listProducts,
                   listAction, srvDeleted>>
    /\ ListFrame

\* the previous-page button: setCurrentPage(p => Math.max(0, p - 1))
previousPage(s) ==
    /\ PaginationRendered(s)
    /\ currentPage[s] # 0
    /\ currentPage' = [currentPage EXCEPT ![s] = Max(0, currentPage[s] - 1)]
    /\ fetchProducts(s, currentPage'[s], showDeleted[s])
    /\ UNCHANGED <<showDeleted, totalPages, totalElements, listProducts,
                   listAction, srvDeleted>>
    /\ ListFrame

\* the show-deleted checkbox: setShowDeleted(checked); setCurrentPage(0)
toggleShowDeleted(s) ==
    /\ route[s] = "products"
    /\ showDeleted' = [showDeleted EXCEPT ![s] = ~showDeleted[s]]
    /\ currentPage' = [currentPage EXCEPT ![s] = 0]
    /\ fetchProducts(s, 0, showDeleted'[s])
    /\ UNCHANGED <<totalPages, totalElements, listProducts, listAction,
                   srvDeleted>>
    /\ ListFrame

\* a response of GET /products/page arrives: setProducts, setTotalPages,
\* setTotalElements, and finally
fetchOk(s, i) ==
    /\ i \in 1..Len(listFetches[s])
    /\ LET f == listFetches[s][i]
           response == SrvPage(f.page, f.includeDeleted)
       IN /\ listProducts' = [listProducts EXCEPT ![s] = response.content]
          /\ totalPages' = [totalPages EXCEPT ![s] = response.totalPages]
          /\ totalElements' =
                [totalElements EXCEPT ![s] = response.totalElements]
    /\ loading' = [loading EXCEPT ![s] = FALSE]
    /\ listFetches' = [listFetches EXCEPT
                         ![s] = SubSeq(@, 1, i - 1) \o SubSeq(@, i + 1, Len(@))]
    /\ UNCHANGED <<error, currentPage, showDeleted, listAction, srvDeleted>>
    /\ ListFrame

\* a GET /products/page fails: catch and finally
fetchFail(s, i) ==
    /\ i \in 1..Len(listFetches[s])
    /\ error' = [error EXCEPT ![s] = TRUE]
    /\ loading' = [loading EXCEPT ![s] = FALSE]
    /\ listFetches' = [listFetches EXCEPT
                         ![s] = SubSeq(@, 1, i - 1) \o SubSeq(@, i + 1, Len(@))]
    /\ UNCHANGED <<currentPage, showDeleted, totalPages, totalElements,
                   listProducts, listAction, srvDeleted>>
    /\ ListFrame

\* handleDelete(product.id), the dialog accepted, up to the DELETE; the
\* handler holds the fetchProducts of the render it was created in
handleDelete(s, id) ==
    /\ ListRendered(s)
    /\ isAdmin(s)
    /\ ~showDeleted[s]
    /\ id \in listProducts[s]
    /\ listAction[s].kind = "none"
    /\ listAction' = [listAction EXCEPT
                        ![s] = [kind |-> "delete", id |-> id,
                                page |-> currentPage[s],
                                includeDeleted |-> showDeleted[s]]]
    /\ UNCHANGED <<loading, error, currentPage, showDeleted, totalPages,
                   totalElements, listProducts, listFetches, srvDeleted>>
    /\ ListFrame

\* handleRestore(product.id), up to the PUT
handleRestore(s, id) ==
    /\ ListRendered(s)
    /\ isAdmin(s)
    /\ showDeleted[s]
    /\ id \in listProducts[s]
    /\ listAction[s].kind = "none"
    /\ listAction' = [listAction EXCEPT
                        ![s] = [kind |-> "restore", id |-> id,
                                page |-> currentPage[s],
                                includeDeleted |-> showDeleted[s]]]
    /\ UNCHANGED <<loading, error, currentPage, showDeleted, totalPages,
                   totalElements, listProducts, listFetches, srvDeleted>>
    /\ ListFrame

\* the engine deletes the product; handleDelete resumes: fetchProducts()
DeleteOk(s) ==
    /\ listAction[s].kind = "delete"
    /\ SrvDeleteAllowed(s, listAction[s].id)
    /\ srvDeleted' = srvDeleted \cup {listAction[s].id}
    /\ fetchProducts(s, listAction[s].page, listAction[s].includeDeleted)
    /\ listAction' = [listAction EXCEPT ![s] = NoListAction]
    /\ UNCHANGED <<currentPage, showDeleted, totalPages, totalElements,
                   listProducts>>
    /\ ListFrame

\* the engine restores the product; handleRestore resumes: fetchProducts()
RestoreOk(s) ==
    /\ listAction[s].kind = "restore"
    /\ SrvRestoreAllowed(s, listAction[s].id)
    /\ srvDeleted' = srvDeleted \ {listAction[s].id}
    /\ fetchProducts(s, listAction[s].page, listAction[s].includeDeleted)
    /\ listAction' = [listAction EXCEPT ![s] = NoListAction]
    /\ UNCHANGED <<currentPage, showDeleted, totalPages, totalElements,
                   listProducts>>
    /\ ListFrame

\* the delete or restore is refused or fails: catch, the error dialog
ListActionCatch(s) ==
    /\ listAction[s].kind # "none"
    /\ listAction' = [listAction EXCEPT ![s] = NoListAction]
    /\ UNCHANGED <<loading, error, currentPage, showDeleted, totalPages,
                   totalElements, listProducts, listFetches, srvDeleted>>
    /\ ListFrame

\* ------------------------------------------------------------------ Next
\* cash payments with a reference: what the ledger sees of a form is its amount
LedgerForms ==
    {fd \in FormData : /\ fd.paymentMethod = "ESPECES"
                       /\ fd.reference = "b"
                       /\ fd.bank = ""
                       /\ fd.chequeNumber = ""
                       /\ fd.dueDate = ""}

\* two sessions against one order
Next ==
    \/ \E s \in Sessions : OpenOrderDetail(s)
    \/ \E s \in Sessions : LoadOrderResponse(s)
    \/ \E s \in Sessions : LoadPaymentsResponse(s)
    \/ \E s \in Sessions : LoadFail(s)
    \/ \E s \in Sessions : TryAgain(s)
    \/ \E s \in Sessions : handleConfirm(s)
    \/ \E s \in Sessions : handleCancel(s)
    \/ \E s \in Sessions : \E i \in 1..MaxPayments : handleEncash(s, i)
    \/ \E s \in Sessions : \E i \in 1..MaxPayments : handleReject(s, i)
    \/ \E s \in Sessions : ConfirmOk(s)
    \/ \E s \in Sessions : CancelOk(s)
    \/ \E s \in Sessions : EncashOk(s)
    \/ \E s \in Sessions : RejectOk(s)
    \/ \E s \in Sessions : ActionRefused(s)
    \/ \E s \in Sessions : ActionNetworkError(s)
    \/ SystemReject
    \/ \E s \in Sessions : OpenAddPayment(s)
    \/ \E s \in Sessions : LoadOrderOk(s)
    \/ \E s \in Sessions : LoadOrderFail(s)
    \/ \E s \in Sessions : \E fd \in LedgerForms : handleSubmit(s, fd)
    \/ \E s \in Sessions : CreateOk(s)
    \/ \E s \in Sessions : CreateRefused(s)
    \/ \E s \in Sessions : CreateNetworkError(s)
    \/ \E s \in Sessions : Redirect(s)

Spec == Init /\ [][Next]_vars

\* one session adding payments, the form filled in every way
InitForm == Init /\ user["s1"] # "null" /\ user["s2"] = "null"

NextForm ==
    \/ \E s \in Sessions : OpenOrderDetail(s)
    \/ \E s \in Sessions : LoadOrderResponse(s)
    \/ \E s \in Sessions : LoadPaymentsResponse(s)
    \/ \E s \in Sessions : LoadFail(s)
    \/ \E s \in Sessions : TryAgain(s)
    \/ \E s \in Sessions : OpenAddPayment(s)
    \/ \E s \in Sessions : LoadOrderOk(s)
    \/ \E s \in Sessions : LoadOrderFail(s)
    \/ \E s \in Sessions : \E fd \in FormData : handleSubmit(s, fd)
    \/ \E s \in Sessions : CreateOk(s)
    \/ \E s \in Sessions : CreateRefused(s)
    \/ \E s \in Sessions : CreateNetworkError(s)
    \/ \E s \in Sessions : Redirect(s)

FormSpec == InitForm /\ [][NextForm]_vars

\* the promo codes typed in the wizard: none, a valid one in lower case, one
\* that is too short
WizardPromoInputs ==
    { <<>>,
      <<"p", "r", "o", "m", "o", "-", "a", "b", "1", "2">>,
      <<"P", "R", "O", "M", "O", "-", "A", "B", "1">> }

\* one visit of the order wizard by one session
InitWizard == Init /\ user["s1"] # "null" /\ user["s2"] = "null"

NextWizard ==
    \/ \E s \in Sessions : route[s] = "none" /\ OpenCreateOrder(s)
    \/ \E s \in Sessions : loadData(s)
    \/ \E s \in Sessions : loadDataFail(s)
    \/ \E s \in Sessions : \E c \in clients[s] : selectClient(s, c)
    \/ \E s \in Sessions : \E p \in products[s] : addItem(s, p)
    \/ \E s \in Sessions : \E p \in ProductIds : \E delta \in {1, -1} :
          updateQuantity(s, p, delta)
    \/ \E s \in Sessions : \E p \in ProductIds : removeItem(s, p)
    \/ \E s \in Sessions : \E typed \in WizardPromoInputs : setPromoCode(s, typed)
    \/ \E s \in Sessions : Previous(s)
    \/ \E s \in Sessions : NextStep(s)
    \/ \E s \in Sessions : handleSubmitOrder(s)
    \/ \E s \in Sessions : CreateOrderOk(s)
    \/ \E s \in Sessions : CreateOrderRefused(s)
    \/ \E s \in Sessions : CreateOrderNetworkError(s)
    \/ \E s \in Sessions : CreateOrderTimeout(s)

WizardSpec == InitWizard /\ [][NextWizard]_vars

\* the prices around the thresholds of the tier discounts
ThresholdPrices ==
    {Centimes(49999), MAD(500), Centimes(79999), MAD(800), Centimes(119999),
     MAD(1200), MAD(1000)}

\* the order lines the totals are computed of: nothing, one line, or one
\* line and a second line of one centime
TotalsItemLists ==
    {<<>>}
    \cup {<<[productId |-> 1, quantity |-> 1, price |-> p, stock |-> 2]>> :
            p \in ThresholdPrices}
    \cup {<<[productId |-> 1, quantity |-> 1, price |-> p, stock |-> 2],
            [productId |-> 2, quantity |-> 1, price |-> Centimes(1),
             stock |-> 1]>> : p \in ThresholdPrices}

\* the wizard at step 2, with a client of any tier and with lines priced
\* around the thresholds
InitTotals ==
    /\ user = [s \in Sessions |-> IF s = "s1" THEN "ADMIN" ELSE "null"]
    /\ route = [s \in Sessions |-> IF s = "s1" THEN "createOrder" ELSE "none"]
    /\ srvStatus = "PENDING"
    /\ srvPayments = <<>>
    /\ order = [s \in Sessions |-> "null"]
    /\ payments = [s \in Sessions |-> <<>>]
    /\ loading = [s \in Sessions |-> FALSE]
    /\ error = [s \in Sessions |-> FALSE]
    /\ actionLoading = [s \in Sessions |-> FALSE]
    /\ submitting = [s \in Sessions |-> FALSE]
    /\ success = [s \in Sessions |-> FALSE]
    /\ errors = [s \in Sessions |-> {}]
    /\ fetch = [s \in Sessions |-> NoFetch]
    /\ request = [s \in Sessions |-> NoRequest]
    /\ step = [s \in Sessions |-> IF s = "s1" THEN 2 ELSE 1]
    /\ clients = [s \in Sessions |-> IF s = "s1" THEN TierClients ELSE {}]
    /\ \E items \in TotalsItemLists : \E c \in TierClients :
          /\ orderItems = [s \in Sessions |-> IF s = "s1" THEN items ELSE <<>>]
          /\ selectedClient =
                [s \in Sessions |-> IF s = "s1" THEN c ELSE NoClient]
          /\ products =
                [s \in Sessions |->
                    IF s = "s1"
                    THEN {[id |-> items[i].productId, price |-> items[i].price,
                           stock |-> items[i].stock] : i \in 1..Len(items)}
                    ELSE {}]
          /\ totals =
                [s \in Sessions |->
                    IF s = "s1" THEN calculateTotals(c, items, <<>>)
                    ELSE NoTotals]
    /\ promoCode = [s \in Sessions |-> <<>>]
    /\ srvOrders = <<>>
    /\ srvStock = InitialStock
    /\ SettledAuth
    /\ NoProductsList
    /\ NoPaymentForm

NextTotals ==
    \/ \E s \in Sessions : \E c \in clients[s] : selectClient(s, c)
    \/ \E s \in Sessions : \E p \in ProductIds : \E delta \in {1, -1} :
          updateQuantity(s, p, delta)
    \/ \E s \in Sessions : \E p \in ProductIds : removeItem(s, p)
    \/ \E s \in Sessions : \E typed \in PromoInputs : setPromoCode(s, typed)
    \/ \E s \in Sessions : Previous(s)
    \/ \E s \in Sessions : NextStep(s)

TotalsSpec == InitTotals /\ [][NextTotals]_vars

\* the wizard at step 2 with a SILVER client and one line of 500.00: the
\* promo code is typed in every way and the order is submitted
InitPromo ==
    /\ InitTotals
    /\ selectedClient["s1"].tier = "SILVER"
    /\ Len(orderItems["s1"]) = 1
    /\ orderItems["s1"][1].price = MAD(500)

NextPromo ==
    \/ \E s \in Sessions : \E typed \in PromoInputs : setPromoCode(s, typed)
    \/ \E s \in Sessions : Previous(s)
    \/ \E s \in Sessions : NextStep(s)
    \/ \E s \in Sessions : handleSubmitOrder(s)
    \/ \E s \in Sessions : CreateOrderOk(s)
    \/ \E s \in Sessions : CreateOrderRefused(s)
    \/ \E s \in Sessions : CreateOrderNetworkError(s)
    \/ \E s \in Sessions : CreateOrderTimeout(s)

PromoSpec == InitPromo /\ [][NextPromo]_vars

\* one unit of product 2 is all the stock there is
RaceStock == [i \in ProductIds |-> IF i = 2 THEN 1 ELSE 0]

\* two sessions, each visiting the order wizard once
InitRace ==
    /\ user \in [Sessions -> Role]
    /\ route = [s \in Sessions |-> "none"]
    /\ srvStatus = "PENDING"
    /\ srvPayments = <<>>
    /\ order = [s \in Sessions |-> "null"]
    /\ payments = [s \in Sessions |-> <<>>]
    /\ loading = [s \in Sessions |-> FALSE]
    /\ error = [s \in Sessions |-> FALSE]
    /\ actionLoading = [s \in Sessions |-> FALSE]
    /\ submitting = [s \in Sessions |-> FALSE]
    /\ success = [s \in Sessions |-> FALSE]
    /\ errors = [s \in Sessions |-> {}]
    /\ fetch = [s \in Sessions |-> NoFetch]
    /\ request = [s \in Sessions |-> NoRequest]
    /\ step = [s \in Sessions |-> 1]
    /\ clients = [s \in Sessions |-> {}]
    /\ products = [s \in Sessions |-> {}]
    /\ selectedClient = [s \in Sessions |-> NoClient]
    /\ orderItems = [s \in Sessions |-> <<>>]
    /\ promoCode = [s \in Sessions |-> <<>>]
    /\ totals = [s \in Sessions |-> NoTotals]
    /\ srvOrders = <<>>
    /\ srvStock = RaceStock
    /\ SettledAuth
    /\ NoProductsList
    /\ NoPaymentForm

NextRace ==
    \/ \E s \in Sessions : route[s] = "none" /\ OpenCreateOrder(s)
    \/ \E s \in Sessions : loadData(s)
    \/ \E s \in Sessions : \E c \in clients[s] : selectClient(s, c)
    \/ \E s \in Sessions : \E p \in products[s] : addItem(s, p)
    \/ \E s \in Sessions : Previous(s)
    \/ \E s \in Sessions : NextStep(s)
    \/ \E s \in Sessions : handleSubmitOrder(s)
    \/ \E s \in Sessions : CreateOrderOk(s)
    \/ \E s \in Sessions : CreateOrderRefused(s)
    \/ \E s \in Sessions : CreateOrderNetworkError(s)

\* the app is opened by one browser, on /login or on /, with or without a
\* session cookie: AuthProvider mounts, and its effect sends checkAuth
InitAuth ==
    /\ user = [s \in Sessions |-> "null"]
    /\ route \in {[s \in Sessions |-> IF s = "s1" THEN path ELSE "none"] :
                    path \in {"login", "home"}}
    /\ srvStatus = "PENDING"
    /\ srvPayments = <<>>
    /\ order = [s \in Sessions |-> "null"]
    /\ payments = [s \in Sessions |-> <<>>]
    /\ loading = [s \in Sessions |-> FALSE]
    /\ error = [s \in Sessions |-> FALSE]
    /\ actionLoading = [s \in Sessions |-> FALSE]
    /\ submitting = [s \in Sessions |-> FALSE]
    /\ success = [s \in Sessions |-> FALSE]
    /\ errors = [s \in Sessions |-> {}]
    /\ fetch = [s \in Sessions |-> NoFetch]
    /\ request = [s \in Sessions |-> NoRequest]
    /\ step = [s \in Sessions |-> 1]
    /\ clients = [s \in Sessions |-> {}]
    /\ products = [s \in Sessions |-> {}]
    /\ selectedClient = [s \in Sessions |-> NoClient]
    /\ orderItems = [s \in Sessions |-> <<>>]
    /\ promoCode = [s \in Sessions |-> <<>>]
    /\ totals = [s \in Sessions |-> NoTotals]
    /\ srvOrders = <<>>
    /\ srvStock = InitialStock
    /\ srvAgg = NoAggregates
    /\ authLoading = [s \in Sessions |-> s = "s1"]
    /\ authCheck = [s \in Sessions |-> IF s = "s1" THEN "sent" ELSE "idle"]
    /\ loginReq = [s \in Sessions |-> NoLogin]
    /\ logoutReq = [s \in Sessions |-> "idle"]
    /\ srvSession \in {[s \in Sessions |-> IF s = "s1" THEN u ELSE "null"] :
                         u \in Role \cup {"null"}}
    /\ isLoading = [s \in Sessions |-> FALSE]
    /\ loginError = [s \in Sessions |-> FALSE]
    /\ NoProductsList
    /\ NoPaymentForm

NextAuth ==
    \/ \E s \in Sessions : \E path \in {"login", "home"} : Goto(s, path)
    \/ \E s \in Sessions : SrvMe(s)
    \/ \E s \in Sessions : checkAuthOk(s)
    \/ \E s \in Sessions : checkAuthRefused(s)
    \/ \E s \in Sessions : checkAuthNetworkError(s)
    \/ \E s \in Sessions : \E c \in Credentials : handleSubmitLogin(s, c)
    \/ \E s \in Sessions : SrvLogin(s)
    \/ \E s \in Sessions : LoginOk(s)
    \/ \E s \in Sessions : LoginRefused(s)
    \/ \E s \in Sessions : LoginNetworkError(s)
    \/ \E s \in Sessions : handleLogout(s)
    \/ \E s \in Sessions : LogoutOk(s)
    \/ \E s \in Sessions : LogoutNetworkError(s)

AuthSpec == InitAuth /\ [][NextAuth]_vars

RaceSpec == InitRace /\ [][NextRace]_vars

\* one visit of the products list by one session
InitList == Init /\ user["s1"] # "null" /\ user["s2"] = "null"

NextList ==
    \/ \E s \in Sessions : route[s] = "none" /\ OpenProducts(s)
    \/ \E s \in Sessions : refresh(s)
    \/ \E s \in Sessions : nextPage(s)
    \/ \E s \in Sessions : previousPage(s)
    \/ \E s \in Sessions : toggleShowDeleted(s)
    \/ \E s \in Sessions : \E i \in 1..MaxFetches : fetchOk(s, i)
    \/ \E s \in Sessions : \E i \in 1..MaxFetches : fetchFail(s, i)
    \/ \E s \in Sessions : \E id \in ClickIds : handleDelete(s, id)
    \/ \E s \in Sessions : \E id \in ClickIds : handleRestore(s, id)
    \/ \E s \in Sessions : DeleteOk(s)
    \/ \E s \in Sessions : RestoreOk(s)
    \/ \E s \in Sessions : ListActionCatch(s)

ListSpec == InitList /\ [][NextList]_vars

\* what is typed in the payment form, field by field
EditInputs ==
    [amount |-> {OrderTotal}, paymentMethod |-> PaymentMethod,
     reference |-> {"b"}, bank |-> Texts, chequeNumber |-> {"b"},
     dueDate |-> Dates]

\* one visit of the add payment page by one session, the form edited field
\* by field
InitEdit == Init /\ user["s1"] # "null" /\ user["s2"] = "null"

NextEdit ==
    \/ \E s \in Sessions : route[s] = "none" /\ OpenAddPayment(s)
    \/ \E s \in Sessions : LoadOrderOk(s)
    \/ \E s \in Sessions : LoadOrderFail(s)
    \/ \E s \in Sessions : \E field \in DOMAIN EditInputs :
          \E value \in EditInputs[field] : handleChange(s, field, value)
    \/ \E s \in Sessions : submitForm(s)
    \/ \E s \in Sessions : CreateOk(s)
    \/ \E s \in Sessions : CreateRefused(s)
    \/ \E s \in Sessions : CreateNetworkError(s)

EditSpec == InitEdit /\ [][NextEdit]_vars

\* one session places an order in the wizard and is taken to its page
InitLife == Init /\ user["s1"] # "null" /\ user["s2"] = "null"

NextLife ==
    \/ \E s \in Sessions : route[s] = "none" /\ OpenCreateOrder(s)
    \/ \E s \in Sessions : loadData(s)
    \/ \E s \in Sessions : \E c \in clients[s] : selectClient(s, c)
    \/ \E s \in Sessions : \E p \in products[s] : addItem(s, p)
    \/ \E s \in Sessions : \E p \in ProductIds : \E delta \in {1, -1} :
          updateQuantity(s, p, delta)
    \/ \E s \in Sessions : \E p \in ProductIds : removeItem(s, p)
    \/ \E s \in Sessions : Previous(s)
    \/ \E s \in Sessions : NextStep(s)
    \/ \E s \in Sessions : handleSubmitOrder(s)
    \/ \E s \in Sessions : CreateOrderOk(s)
    \/ \E s \in Sessions : CreateOrderNetworkError(s)
    \/ \E s \in Sessions : LoadOrderResponse(s)
    \/ \E s \in Sessions : LoadPaymentsResponse(s)
    \/ \E s \in Sessions : LoadFail(s)
    \/ \E s \in Sessions : TryAgain(s)
    \/ \E s \in Sessions : handleCancel(s)
    \/ \E s \in Sessions : CancelOk(s)
    \/ \E s \in Sessions : ActionRefused(s)
    \/ \E s \in Sessions : ActionNetworkError(s)
    \/ srvOrders # <<>> /\ SystemReject

LifeSpec == InitLife /\ [][NextLife]_vars

\* one session from the mount of the app: checkAuth, then one visit of the
\* add payment page, of the order page and of the order wizard
InitLive == InitAuth /\ route["s1"] = "home"

NextLive ==
    \/ \E s \in Sessions : SrvMe(s)
    \/ \E s \in Sessions : checkAuthOk(s)
    \/ \E s \in Sessions : checkAuthRefused(s)
    \/ \E s \in Sessions : checkAuthNetworkError(s)
    \/ \E s \in Sessions :
          route[s] = "home" /\ View(s) = "children" /\ OpenOrderDetail(s)
    \/ \E s \in Sessions : LoadOrderResponse(s)
    \/ \E s \in Sessions : LoadPaymentsResponse(s)
    \/ \E s \in Sessions : LoadFail(s)
    \/ \E s \in Sessions : TryAgain(s)
    \/ \E s \in Sessions : handleConfirm(s)
    \/ \E s \in Sessions : handleCancel(s)
    \/ \E s \in Sessions : \E i \in 1..MaxPayments : handleEncash(s, i)
    \/ \E s \in Sessions : \E i \in 1..MaxPayments : handleReject(s, i)
    \/ \E s \in Sessions : ConfirmOk(s)
    \/ \E s \in Sessions : CancelOk(s)
    \/ \E s \in Sessions : EncashOk(s)
    \/ \E s \in Sessions : RejectOk(s)
    \/ \E s \in Sessions : ActionRefused(s)
    \/ \E s \in Sessions : ActionNetworkError(s)
    \/ SystemReject
    \/ \E s \in Sessions :
          route[s] = "home" /\ View(s) = "children" /\ OpenAddPayment(s)
    \/ \E s \in Sessions : LoadOrderOk(s)
    \/ \E s \in Sessions : LoadOrderFail(s)
    \/ \E s \in Sessions : \E fd \in LedgerForms : handleSubmit(s, fd)
    \/ \E s \in Sessions : CreateOk(s)
    \/ \E s \in Sessions : CreateRefused(s)
    \/ \E s \in Sessions : CreateNetworkError(s)
    \/ \E s \in Sessions : Redirect(s)
    \/ \E s \in Sessions :
          route[s] = "home" /\ View(s) = "children" /\ OpenCreateOrder(s)
    \/ \E s \in Sessions : loadData(s)
    \/ \E s \in Sessions : loadDataFail(s)
    \/ \E s \in Sessions : \E c \in clients[s] : selectClient(s, c)
    \/ \E s \in Sessions : \E p \in products[s] : addItem(s, p)
    \/ \E s \in Sessions : NextStep(s)
    \/ \E s \in Sessions : handleSubmitOrder(s)
    \/ \E s \in Sessions : CreateOrderOk(s)
    \/ \E s \in Sessions : CreateOrderRefused(s)
    \/ \E s \in Sessions : CreateOrderNetworkError(s)
    \/ \E s \in Sessions : CreateOrderTimeout(s)

\* GET /auth/me of checkAuth settles: answered, or failed
checkAuthSettles(s) ==
    SrvMe(s) \/ checkAuthOk(s) \/ checkAuthRefused(s) \/ checkAuthNetworkError(s)

\* the GETs of the mount effect of a page settle
loadSettles(s) ==
    \/ LoadOrderResponse(s) \/ LoadPaymentsResponse(s) \/ LoadFail(s)
    \/ LoadOrderOk(s) \/ LoadOrderFail(s)
    \/ loadData(s) \/ loadDataFail(s)

\* the PUT of a handler of the order page settles
actionSettles(s) ==
    \/ ConfirmOk(s) \/ CancelOk(s) \/ EncashOk(s) \/ RejectOk(s)
    \/ ActionRefused(s) \/ ActionNetworkError(s)

\* the POST of a form settles
submitSettles(s) ==
    \/ CreateOk(s) \/ CreateRefused(s) \/ CreateNetworkError(s)
    \/ CreateOrderOk(s) \/ CreateOrderRefused(s)
    \/ CreateOrderNetworkError(s) \/ CreateOrderTimeout(s)

\* every HTTP request of the browser is answered or fails
RequestsSettle ==
    \A s \in Sessions :
        /\ WF_vars(checkAuthSettles(s))
        /\ WF_vars(loadSettles(s))
        /\ WF_vars(actionSettles(s))
        /\ WF_vars(submitSettles(s))

LiveSpec == InitLive /\ [][NextLive]_vars /\ RequestsSettle

\* ------------------------------------------------------------------ claims
Terminal(st) == st \in TerminalOrderStatus

\* sum of the ENCAISSE amounts of a list of payments
Cleared(ps) == SumAmounts(ps, {"ENCAISSE"})

\* sum of the amounts of the payments that are not REJETE
NonRejected(ps) == SumAmounts(ps, {"EN_ATTENTE", "ENCAISSE"})

DetailRequests == {"confirm", "cancel", "encash", "reject"}

\* a confirm request comes from a page showing a PENDING, fully paid order to
\* an admin
C1_IssuedOnlyWhenPaid ==
    \A s \in Sessions :
        request[s].kind = "confirm" =>
            /\ order[s] = "PENDING"
            /\ user[s] = "ADMIN"
            /\ OrderTotal - Cleared(payments[s]) <= 0

\* a page showing a PENDING, fully paid order to an admin offers confirm
C1_OfferedWhenPaid ==
    \A s \in Sessions :
        ( /\ DetailRendered(s)
          /\ user[s] = "ADMIN"
          /\ order[s] = "PENDING"
          /\ OrderTotal - Cleared(payments[s]) <= 0
          /\ ~actionLoading[s] )
        => HeaderConfirmEnabled(s) /\ AdminConfirmEnabled(s)

\* the engine accepts a confirm in flight as long as the order is PENDING
C1_AcceptedWhenPaid ==
    \A s \in Sessions :
        (request[s].kind = "confirm" /\ srvStatus = "PENDING")
        => SrvConfirmAllowed(s)

\* the order becomes CONFIRMED only with nothing left to pay
C1_ConfirmedOnlyWhenPaid ==
    (srvStatus # "CONFIRMED" /\ srvStatus' = "CONFIRMED")
    => OrderTotal - Cleared(srvPayments) <= 0

\* C1: a confirm request is issued only from a page whose order is PENDING,
\* whose user is ADMIN and whose loaded ENCAISSE payments cover the total; the
\* order becomes CONFIRMED only while the ledger's remaining balance is <= 0;
\* a page that shows a fully paid PENDING order to an admin offers confirm,
\* and the engine accepts that confirm while the order is still PENDING.
C1_ConfirmNeedsZeroBalance ==
    /\ [](C1_IssuedOnlyWhenPaid /\ C1_OfferedWhenPaid /\ C1_AcceptedWhenPaid)
    /\ [][C1_ConfirmedOnlyWhenPaid]_vars

\* C1 witness: the order was confirmed from a page, its cleared payments
\* equal to the order total.
C1_Witness ==
    \E s \in Sessions :
        /\ DetailRendered(s)
        /\ order[s] = "CONFIRMED"
        /\ srvStatus = "CONFIRMED"
        /\ Cleared(srvPayments) = OrderTotal
        /\ Cleared(payments[s]) = OrderTotal

\* C2: whatever the other session did since this page loaded, while a
\* confirm request is in flight (from its issue to its answer) the remaining
\* balance computed from the payments' current statuses is <= 0.
C2_ConfirmNeverOnStaleBalance ==
    \A s \in Sessions :
        request[s].kind = "confirm" => OrderTotal - Cleared(srvPayments) <= 0

\* C2 witness: a confirm request in flight from a page whose order was
\* canceled by the other session after the page had loaded it.
C2_Witness ==
    \E s \in Sessions :
        /\ request[s].kind = "confirm"
        /\ order[s] = "PENDING"
        /\ srvStatus = "CANCELED"

\* the status leaves PENDING only, and only for a terminal status
C3_TerminalStays ==
    /\ Terminal(srvStatus) => srvStatus' = srvStatus
    /\ srvStatus' # srvStatus => srvStatus = "PENDING" /\ Terminal(srvStatus')

\* a page that has loaded a terminal status offers and issues no transition
C3_NoActionOnTerminal ==
    \A s \in Sessions :
        /\ request[s].kind \in {"confirm", "cancel"} => order[s] = "PENDING"
        /\ (DetailRendered(s) /\ Terminal(order[s])) =>
              /\ ~HeaderConfirmEnabled(s) /\ ~AdminConfirmEnabled(s)
              /\ ~HeaderCancelEnabled(s) /\ ~AdminCancelEnabled(s)

\* C3: the status of the order never leaves CONFIRMED, CANCELED or REJECTED,
\* PENDING is left only for one of these three, and a page that has loaded a
\* terminal status offers no confirm or cancel button and issues no confirm
\* or cancel request.
C3_TerminalOrderStates ==
    []C3_NoActionOnTerminal /\ [][C3_TerminalStays]_vars

\* C3 witness: an admin looks at the CONFIRMED order while the other session,
\* which loaded it PENDING, has a cancel request in flight against it.
C3_Witness ==
    \E s, r \in Sessions :
        /\ DetailRendered(s) /\ user[s] = "ADMIN" /\ order[s] = "CONFIRMED"
        /\ request[r].kind = "cancel"
        /\ srvStatus = "CONFIRMED"

\* payments stay, keep their amount, and change status out of EN_ATTENTE only
C4_OneWay ==
    /\ Len(srvPayments') >= Len(srvPayments)
    /\ \A i \in 1..Len(srvPayments) :
          /\ srvPayments'[i].amount = srvPayments[i].amount
          /\ srvPayments'[i].paymentStatus # srvPayments[i].paymentStatus =>
                /\ srvPayments[i].paymentStatus = "EN_ATTENTE"
                /\ srvPayments'[i].paymentStatus \in {"ENCAISSE", "REJETE"}

\* encash and reject requests are for payments the page shows as EN_ATTENTE
C4_OnlyForPending ==
    \A s \in Sessions :
        request[s].kind \in {"encash", "reject"} =>
            /\ request[s].id \in 1..Len(payments[s])
            /\ payments[s][request[s].id].paymentStatus = "EN_ATTENTE"

\* C4: a payment's status changes only from EN_ATTENTE to ENCAISSE or REJETE,
\* payments are never removed or re-priced, and an encash or reject request
\* is issued only for a payment the page has loaded as EN_ATTENTE.
C4_PaymentStatusOneWay ==
    []C4_OnlyForPending /\ [][C4_OneWay]_vars

\* C4 witness: a reject request in flight for a payment the other session
\* has encashed since the page loaded it.
C4_Witness ==
    \E s \in Sessions :
        /\ request[s].kind = "reject"
        /\ request[s].id \in 1..Len(srvPayments)
        /\ srvPayments[request[s].id].paymentStatus = "ENCAISSE"

\* the effect of one step on the remaining amount the page computes
C5_Step ==
    /\ \A i \in 1..Len(srvPayments) :
          /\ (/\ srvPayments[i].paymentStatus = "EN_ATTENTE"
              /\ srvPayments'[i].paymentStatus = "REJETE")
             => totalPaid(srvPayments') = totalPaid(srvPayments)
          /\ (/\ srvPayments[i].paymentStatus = "EN_ATTENTE"
              /\ srvPayments'[i].paymentStatus = "ENCAISSE")
             => (OrderTotal - totalPaid(srvPayments'))
                  = (OrderTotal - totalPaid(srvPayments)) - srvPayments[i].amount
    /\ Len(srvPayments') > Len(srvPayments)
          => totalPaid(srvPayments') = totalPaid(srvPayments)

\* C5: with the remaining amount computed as the page computes it (total
\* minus totalPaid), a payment going to REJETE leaves it unchanged, a payment
\* of amount a going to ENCAISSE lowers it by exactly a, and a newly created
\* EN_ATTENTE payment leaves it unchanged.
C5_RejectKeepsEncashLowers == [][C5_Step]_vars

\* C5 witness: a page shows a rejected and an encashed payment, and its
\* remaining amount is the total minus the encashed one alone.
C5_Witness ==
    \E s \in Sessions :
        /\ DetailRendered(s)
        /\ \E i, j \in 1..Len(payments[s]) :
              /\ payments[s][i].paymentStatus = "REJETE"
              /\ payments[s][j].paymentStatus = "ENCAISSE"
              /\ remainingAmount(s) = OrderTotal - payments[s][j].amount

\* C6: the ENCAISSE amounts of the order never add up to more than the order
\* total, in the ledger and on every page that has loaded it.
C6_ClearedNeverExceedsTotal ==
    /\ Cleared(srvPayments) <= OrderTotal
    /\ \A s \in Sessions : Cleared(payments[s]) <= OrderTotal

\* C6 witness: the order is paid in full, an earlier payment was rejected,
\* and a request for one more payment is in flight.
C6_Witness ==
    /\ Cleared(srvPayments) = OrderTotal
    /\ \E i \in 1..Len(srvPayments) : srvPayments[i].paymentStatus = "REJETE"
    /\ \E s \in Sessions : request[s].kind = "create"

\* a payment enters the ledger only with an amount the ledger leaves room for
C7_Created ==
    Len(srvPayments') > Len(srvPayments) =>
        /\ Len(srvPayments') = Len(srvPayments) + 1
        /\ srvPayments'[Len(srvPayments')].amount > 0
        /\ srvPayments'[Len(srvPayments')].amount
              <= OrderTotal - NonRejected(srvPayments)

\* a request with any other amount ends in the error banner
C7_Refused ==
    \A s \in Sessions :
        ( /\ request[s].kind = "create"
          /\ request'[s].kind = "none"
          /\ \/ request[s].data.amount <= 0
             \/ request[s].data.amount > OrderTotal - NonRejected(srvPayments) )
        => (srvPayments' = srvPayments /\ error'[s] /\ ~success'[s])

\* the form sends no amount <= 0 and none above the order total
C7_ClientSide ==
    \A s \in Sessions :
        request[s].kind = "create" =>
            request[s].data.amount > 0 /\ request[s].data.amount <= OrderTotal

\* C7: a payment is added to the ledger only with an amount > 0 that does not
\* exceed the total minus the non-REJETE payments; a request with any other
\* amount ends with the ledger unchanged and the page's error set; no request
\* is issued for an amount <= 0 or above the order total.
C7_NoOverpayment ==
    []C7_ClientSide /\ [][C7_Created /\ C7_Refused]_vars

\* C7 witness: a request for an amount within the order total but above what
\* the non-rejected payments leave is in flight.
C7_Witness ==
    \E s \in Sessions :
        /\ request[s].kind = "create"
        /\ request[s].data.amount <= OrderTotal
        /\ request[s].data.amount > OrderTotal - NonRejected(srvPayments)

\* a request in flight carries what its method requires
C8_RequiredPresent ==
    \A s \in Sessions :
        request[s].kind = "create" =>
            LET d == request[s].data IN
            /\ d.paymentMethod = "CHEQUE" =>
                  /\ d.bank \notin {Absent, "", " "}
                  /\ d.chequeNumber \notin {Absent, "", " "}
                  /\ d.dueDate \notin {Absent, ""}
            /\ d.paymentMethod = "VIREMENT" => d.bank \notin {Absent, "", " "}

\* a submit either sets field errors or sends a request
C8_Submit ==
    \A s \in Sessions :
        /\ (request[s].kind = "none" /\ request'[s].kind = "create")
              => errors'[s] = {}
        /\ (errors'[s] # errors[s] /\ errors'[s] # {})
              => (request'[s] = request[s] /\ submitting'[s] = submitting[s])

\* C8: a payment request in flight carries the fields its method requires,
\* non-blank (CHEQUE: bank, chequeNumber, dueDate; VIREMENT: bank); a submit
\* that sets field errors sends no request, and a submit that sends a request
\* leaves no field error.
C8_MethodFieldsRequired ==
    []C8_RequiredPresent /\ [][C8_Submit]_vars

\* C8 witness: a cheque form without cheque number was submitted: the field
\* carries an error and nothing is in flight.
C8_Witness ==
    /\ route["s1"] = "addPayment"
    /\ errors["s1"] = {"chequeNumber"}
    /\ request["s1"].kind = "none"
    /\ ~submitting["s1"]

\* C9: no page that shows the order as CANCELED offers Encash for one of its
\* payments, and none has an encash request in flight.
C9_NoEncashOnCanceledOrder ==
    \A s \in Sessions :
        /\ (DetailRendered(s) /\ order[s] = "CANCELED") =>
              \A i \in 1..Len(payments[s]) : ~PaymentActionsShown(s, i)
        /\ request[s].kind = "encash" => order[s] # "CANCELED"

\* C10: confirm, cancel, encash and reject requests are issued by ADMIN users
\* only.
C10_MutationsAdminOnly ==
    \A s \in Sessions :
        request[s].kind \in DetailRequests => user[s] = "ADMIN"

\* C10 witness: a CLIENT has loaded the PENDING order and a payment of it
\* that waits to be encashed: the read works, no request goes out.
C10_Witness ==
    \E s \in Sessions :
        /\ user[s] = "CLIENT"
        /\ DetailRendered(s)
        /\ order[s] = "PENDING"
        /\ request[s].kind = "none"
        /\ \E i \in 1..Len(payments[s]) :
              payments[s][i].paymentStatus = "EN_ATTENTE"

\* the percentage the tier discount takes of a subTotal, by the claim's table
TierPercent(tier, subTotal) ==
    CASE tier = "SILVER" /\ subTotal >= MAD(500) -> 5
      [] tier = "GOLD" /\ subTotal >= MAD(800) -> 10
      [] tier = "PLATINUM" /\ subTotal >= MAD(1200) -> 15
      [] OTHER -> 0

\* C11: on every render of the wizard subTotal is the sum of price x quantity
\* of the lines, and tierDiscount is 5% of it for a SILVER client from 500.00,
\* 10% for a GOLD client from 800.00, 15% for a PLATINUM client from 1200.00
\* (thresholds included) and 0 otherwise: for BASIC, and for a client below
\* the threshold of their own tier whatever lower threshold is met.
C11_TierDiscountByOwnTier ==
    \A s \in Sessions :
        WizardRendered(s) =>
            /\ totals[s].subTotal = subTotalOf(orderItems[s])
            /\ 100 * totals[s].tierDiscount
                  = totals[s].subTotal
                      * TierPercent(selectedClient[s].tier, totals[s].subTotal)

\* C11 witness: on the review step a SILVER client with lines of 499.99 and
\* 0.01 gets 25.00, a tier discount at the threshold itself.
C11_Witness ==
    /\ WizardRendered("s1")
    /\ step["s1"] = 3
    /\ selectedClient["s1"].tier = "SILVER"
    /\ Len(orderItems["s1"]) = 2
    /\ totals["s1"].subTotal = MAD(500)
    /\ totals["s1"].tierDiscount = MAD(25)

\* the pattern of a promo code: PROMO- and four characters of [A-Z0-9]
IsPromoCode(code) ==
    /\ Len(code) = 10
    /\ \A i \in 1..Len(code) :
          IF i <= 6 THEN code[i] = <<"P", "R", "O", "M", "O", "-">>[i]
          ELSE code[i] \in UpperAlnum

\* promoDiscount is 5% of subTotal for a code of the pattern, 0 otherwise
C12_PromoDiscount ==
    \A s \in Sessions :
        WizardRendered(s) =>
            100 * totals[s].promoDiscount
               = totals[s].subTotal * (IF IsPromoCode(promoCode[s]) THEN 5 ELSE 0)

\* no code blocks the wizard: with lines chosen Next is enabled at step 2 and
\* Create Order at step 3, and a request in flight carries the code as it
\* stood, of the pattern or not
C12_NotBlocked ==
    \A s \in Sessions :
        /\ (ItemsStep(s) /\ orderItems[s] # <<>>) => NextEnabled(s)
        /\ (WizardRendered(s) /\ step[s] = 3 /\ orderItems[s] # <<>>
              /\ ~submitting[s]) => SubmitOrderEnabled(s)
        /\ request[s].kind = "createOrder" =>
              ("promoCode" \in DOMAIN request[s].data
                  => request[s].data.promoCode
                        \in {toUpperCase(typed) : typed \in PromoInputs})

C13_DiscountsAdditive ==
    \A s \in Sessions :
        WizardRendered(s) =>
            LET sub == totals[s].subTotal
                pct == TierPercent(selectedClient[s].tier, sub)
            IN /\ totals[s].totalDiscount
                     = totals[s].tierDiscount + totals[s].promoDiscount
               /\ 100 * totals[s].promoDiscount \in {0, 5 * sub}
               /\ IsPromoCode(promoCode[s])
                     => 100 * totals[s].totalDiscount = sub * (pct + 5)

\* C13 witness: a GOLD client, 800.00 and a promo code: 80.00 + 40.00.
C13_Witness ==
    /\ WizardRendered("s1")
    /\ selectedClient["s1"].tier = "GOLD"
    /\ IsPromoCode(promoCode["s1"])
    /\ totals["s1"].subTotal = MAD(800)
    /\ totals["s1"].tierDiscount = MAD(80)
    /\ totals["s1"].promoDiscount = MAD(40)
    /\ totals["s1"].totalDiscount = MAD(120)

\* C14 as stated: for a subTotal of 1000.00, a PLATINUM client and a promo
\* code of the pattern, totalDiscount is 200.00.
C14_PlatinumThousandIs200 ==
    \A s \in Sessions :
        ( /\ WizardRendered(s)
          /\ selectedClient[s].tier = "PLATINUM"
          /\ IsPromoCode(promoCode[s])
          /\ totals[s].subTotal = MAD(1000) )
        => totals[s].totalDiscount = MAD(200)

\* C14 amended: for a subTotal of 1000.00, a PLATINUM client and a promo code
\* of the pattern, totalDiscount is 50.00: 1000.00 is below the PLATINUM
\* threshold of 1200.00, so the promo discount is alone; at 1200.00 the two
\* add up to 240.00 (180.00 + 60.00).
C14_PlatinumThousandIs50 ==
    \A s \in Sessions :
        ( /\ WizardRendered(s)
          /\ selectedClient[s].tier = "PLATINUM"
          /\ IsPromoCode(promoCode[s]) )
        => /\ totals[s].subTotal = MAD(1000)
                => totals[s].totalDiscount = MAD(50)
           /\ totals[s].subTotal = MAD(1200)
                => totals[s].totalDiscount = MAD(240)

\* C14 witness: a PLATINUM client, 1000.00 and a promo code: 50.00 off.
C14_Witness ==
    /\ WizardRendered("s1")
    /\ selectedClient["s1"].tier = "PLATINUM"
    /\ IsPromoCode(promoCode["s1"])
    /\ totals["s1"].subTotal = MAD(1000)
    /\ totals["s1"].tierDiscount = 0
    /\ totals["s1"].totalDiscount = MAD(50)

\* C15: on every render tax is 20% of subTotal - totalDiscount.
C15_TaxOnDiscountedBase ==
    \A s \in Sessions :
        WizardRendered(s) =>
            100 * totals[s].tax
               = 20 * (totals[s].subTotal - totals[s].totalDiscount)

\* C15 witness: the review step shows 800.00, 80.00 off and a tax of 144.00,
\* not 160.00.
C15_Witness ==
    /\ WizardRendered("s1")
    /\ step["s1"] = 3
    /\ totals["s1"].subTotal = MAD(800)
    /\ totals["s1"].totalDiscount = MAD(80)
    /\ totals["s1"].tax = MAD(144)

\* an amount rounded to the centime, halves up
RoundToCentime(x) == ((x + 50) \div 100) * 100

\* C16: on every render totalAmount = (subTotal - totalDiscount) + tax, which
\* is 1.2 times subTotal - totalDiscount and lies less than a centime from
\* its rounded value; totalDiscount is at most subTotal and totalAmount >= 0.
C16_TotalIsBasePlusTax ==
    \A s \in Sessions :
        WizardRendered(s) =>
            LET base == totals[s].subTotal - totals[s].totalDiscount
                total == totals[s].totalAmount
            IN /\ total = base + totals[s].tax
               /\ 5 * total = 6 * base
               /\ total - RoundToCentime(total) \in -99..99
               /\ totals[s].totalDiscount <= totals[s].subTotal
               /\ total >= 0

\* C16 witness: a PLATINUM client, 1200.00 and a promo code: 240.00 off, the
\* largest discount there is, and a total of 1152.00.
C16_Witness ==
    /\ WizardRendered("s1")
    /\ totals["s1"].subTotal = MAD(1200)
    /\ totals["s1"].totalDiscount = MAD(240)
    /\ totals["s1"].totalAmount = MAD(1152)

\* the body of a create-order request in flight
C17_BodyShape ==
    \A s \in Sessions :
        request[s].kind = "createOrder" =>
            LET d == request[s].data
            IN /\ {"clientId", "items"} \subseteq DOMAIN d
               /\ DOMAIN d \subseteq {"clientId", "items", "promoCode"}
               /\ "promoCode" \in DOMAIN d => d.promoCode # <<>>
               /\ \A i \in 1..Len(d.items) :
                     DOMAIN d.items[i] = {"productId", "quantity"}

\* the body is built of the client, the lines and the code of the wizard,
\* and once the order is placed the wizard and its preview are gone: the
\* page shown next loads the order from the engine
C17_Step ==
    \A s \in Sessions :
        /\ (request[s].kind = "none" /\ request'[s].kind = "createOrder") =>
              LET d == request'[s].data
              IN /\ d.clientId = selectedClient[s].id
                 /\ Len(d.items) = Len(orderItems[s])
                 /\ \A i \in 1..Len(d.items) :
                       /\ d.items[i].productId = orderItems[s][i].productId
                       /\ d.items[i].quantity = orderItems[s][i].quantity
                 /\ ("promoCode" \in DOMAIN d) = (promoCode[s] # <<>>)
                 /\ "promoCode" \in DOMAIN d => d.promoCode = promoCode[s]
        /\ (route[s] = "createOrder" /\ route'[s] # "createOrder") =>
              /\ request[s].kind = "createOrder"
              /\ route'[s] = "detail"
              /\ totals'[s] = NoTotals
              /\ order'[s] = "null"
              /\ loading'[s]

\* C17: the body of a create-order request holds clientId, items (each of
\* productId and quantity alone) and, when the code is not empty, promoCode,
\* and nothing else: no price, no subTotal, discount, tax or total of the
\* preview; when the order is placed the wizard gives way to the order page,
\* which holds no order until it has loaded the one the engine returns.
C17_NoClientComputedMoney == []C17_BodyShape /\ [][C17_Step]_vars

\* C17 witness: a request of two lines and a promo code is in flight while
\* the preview shows a discount and a total.
C17_Witness ==
    /\ request["s1"].kind = "createOrder"
    /\ Len(request["s1"].data.items) = 2
    /\ "promoCode" \in DOMAIN request["s1"].data
    /\ step["s1"] = 3
    /\ totals["s1"].totalDiscount > 0
    /\ totals["s1"].totalAmount > 0

\* C18: every line of the wizard has a quantity from 1 to the stock of its
\* product as loaded, and so has every line of a create-order request in
\* flight.
C18_QuantityWithinStock ==
    \A s \in Sessions :
        /\ \A i \in 1..Len(orderItems[s]) :
              /\ orderItems[s][i].quantity \in 1..orderItems[s][i].stock
              /\ \E p \in products[s] :
                    /\ p.id = orderItems[s][i].productId
                    /\ p.stock = orderItems[s][i].stock
        /\ request[s].kind = "createOrder" =>
              \A i \in 1..Len(request[s].data.items) :
                 \E p \in products[s] :
                    /\ p.id = request[s].data.items[i].productId
                    /\ request[s].data.items[i].quantity \in 1..p.stock

\* C18 witness: a request for the whole stock of a product is in flight,
\* and the line has been brought back to a quantity of 1 since.
C18_Witness ==
    /\ request["s1"].kind = "createOrder"
    /\ request["s1"].data.items[1].productId = 1
    /\ request["s1"].data.items[1].quantity = 2
    /\ step["s1"] = 2
    /\ Len(orderItems["s1"]) = 2
    /\ orderItems["s1"][1].quantity = 1
    /\ orderItems["s1"][1].stock = 2

\* C19: the wizard is at step 3 only with a client selected and at least one
\* line, and a create-order request names a client and holds at least one
\* line.
C19_NoEmptyOrder ==
    \A s \in Sessions :
        /\ (route[s] = "createOrder" /\ step[s] = 3) =>
              (selectedClient[s] # NoClient /\ orderItems[s] # <<>>)
        /\ request[s].kind = "createOrder" =>
              /\ \E c \in clients[s] : c.id = request[s].data.clientId
              /\ request[s].data.items # <<>>

\* C19 witness: back at step 2 the user has removed every line: Next is
\* disabled, while the request sent from step 3 is still in flight.
C19_Witness ==
    /\ WizardRendered("s1")
    /\ step["s1"] = 2
    /\ selectedClient["s1"] # NoClient
    /\ orderItems["s1"] = <<>>
    /\ ~NextEnabled("s1")
    /\ request["s1"].kind = "createOrder"

\* C20: a create-order request carries an idempotency key, and one visit of
\* the order wizard, whatever is submitted again after an attempt that ended
\* in an error, places at most one order.
C20_OneOrderPerVisit ==
    /\ \A s \in Sessions :
          request[s].kind = "createOrder" =>
              "idempotencyKey" \in DOMAIN request[s].data
    /\ Len(srvOrders) <= 1

\* the same intent placed twice: two orders of one visit of the wizard
C20_TwoOrdersOfOneVisit == Len(srvOrders) >= 2

\* the quantity of product p in the orders placed
RECURSIVE placedOf(_, _)
placedOf(orders, p) ==
    IF orders = <<>> THEN 0
    ELSE quantityOf(Head(orders), p) + placedOf(Tail(orders), p)

\* a request for the one unit of product 2, sent by a wizard that loaded
\* the product with a stock of 1
AsksLastUnit(s) ==
    /\ request[s].kind = "createOrder"
    /\ quantityOf(request[s].data.items, 2) = 1
    /\ \E p \in products[s] : p.id = 2 /\ p.stock = 1

C21_StockNeverNegative ==
    \A p \in ProductIds :
        /\ srvStock[p] >= 0
        /\ srvStock[p] + placedOf(srvOrders, p) = RaceStock[p]

\* a request that finds the unit gone places nothing and ends in the error
\* of the wizard
C21_Step ==
    \A s \in Sessions :
        (AsksLastUnit(s) /\ srvStock[2] = 0 /\ request'[s].kind = "none") =>
            /\ srvOrders' = srvOrders
            /\ srvStock' = srvStock
            /\ route'[s] = "createOrder"
            /\ error'[s]

\* C21: of the orders placed at the same time for the one unit of a product
\* that each wizard loaded with a stock of 1, one is placed and the other
\* is refused and shown as an error; the stock of no product ever goes
\* below zero, and what is placed plus what is left is the initial stock.
C21_NoOversell == []C21_StockNeverNegative /\ [][C21_Step]_vars

\* C21 witness: both sessions asked for the unit; the order of one is
\* placed, the request of the other is still in flight.
C21_Witness ==
    /\ AsksLastUnit("s2")
    /\ route["s1"] = "detail"
    /\ Len(srvOrders) = 1
    /\ quantityOf(srvOrders[1], 2) = 1
    /\ srvStock[2] = 0

\* the stock while the order placed is PENDING, and once it is canceled
C22_StockLevels ==
    /\ Len(srvOrders) <= 1
    /\ (srvOrders # <<>> /\ srvStatus = "PENDING") =>
          \A p \in ProductIds :
             srvStock[p] = InitialStock[p] - quantityOf(srvOrders[1], p)
    /\ srvStatus = "CANCELED" => srvStock = InitialStock

\* the cancellation gives back to each product the quantity of its line
C22_Step ==
    (srvStatus = "PENDING" /\ srvStatus' = "CANCELED") =>
        /\ srvOrders' = srvOrders
        /\ \A p \in ProductIds :
              srvStock'[p] = srvStock[p] + quantityOf(OrderLines, p)

\* C22: placing an order lowers the stock of each product by the quantity of
\* its line, and canceling the order while it is PENDING raises it by the
\* same quantity: once the order is canceled, the stock of every product is
\* what it was before the order was placed.
C22_CancelRestoresStock == []C22_StockLevels /\ [][C22_Step]_vars

\* C22 witness: an order for the two units of product 1 and for the unit of
\* product 2 was placed, and its page shows it canceled.
C22_Witness ==
    /\ route["s1"] = "detail"
    /\ order["s1"] = "CANCELED"
    /\ srvStatus = "CANCELED"
    /\ Len(srvOrders) = 1
    /\ quantityOf(srvOrders[1], 1) = 2
    /\ quantityOf(srvOrders[1], 2) = 1
    /\ srvStock = InitialStock

\* the aggregates of the client count the order once it is CONFIRMED, once
C23_CountedOnce ==
    srvAgg = IF srvStatus = "CONFIRMED"
             THEN [totalSpent |-> OrderTotal, totalOrders |-> 1]
             ELSE NoAggregates

\* a confirmation that reaches an order already CONFIRMED changes nothing of
\* the order, its payments or the aggregates, and ends the action of the page
C23_Step ==
    \A s \in Sessions :
        (/\ request[s].kind = "confirm"
         /\ srvStatus = "CONFIRMED"
         /\ request'[s].kind = "none") =>
            /\ srvStatus' = "CONFIRMED"
            /\ srvPayments' = srvPayments
            /\ srvAgg' = srvAgg
            /\ order'[s] = order[s]
            /\ ~actionLoading'[s]

\* C23: an order is confirmed at most once: totalSpent and totalOrders of
\* its client are raised by the order exactly when it is CONFIRMED, and a
\* confirmation sent for an order that is already CONFIRMED fails and leaves
\* the order, its payments and the aggregates as they were.
C23_ConfirmOnce == []C23_CountedOnce /\ [][C23_Step]_vars

\* C23 witness: one session has confirmed the order; the confirmation of
\* the other, sent from a page that still shows it PENDING, is in flight.
C23_Witness ==
    \E s, r \in Sessions :
        /\ order[s] = "CONFIRMED" /\ DetailRendered(s)
        /\ request[r].kind = "confirm" /\ order[r] = "PENDING"
        /\ srvStatus = "CONFIRMED"
        /\ srvAgg.totalOrders = 1

\* C24: on a path wrapped in ProtectedRoute the session sees the spinner
\* exactly while the auth state is loading, and the page only with loading
\* false and a user; it never rests there with loading false and no user,
\* as the route has taken it to /login.
C24_ProtectedOnlyWhenAuthenticated ==
    \A s \in Sessions :
        route[s] \in ProtectedPaths =>
            /\ authLoading[s] <=> View(s) = "spinner"
            /\ View(s) = "children" => (~authLoading[s] /\ user[s] # "null")
            /\ ~authLoading[s] => user[s] # "null"

\* C24 witness: the login has completed and taken the session to /, where
\* the spinner shows as long as the session check of the mount is in flight.
C24_Witness ==
    /\ route["s1"] = "home"
    /\ user["s1"] # "null"
    /\ authLoading["s1"]
    /\ View("s1") = "spinner"

\* C25: while a user is authenticated, the session check of the mount, when
\* it settles, leaves the user as it is.
C25_CheckKeepsLoggedInUser ==
    [][\A s \in Sessions :
          (user[s] # "null" /\ authCheck[s] # "idle" /\ authCheck'[s] = "idle")
              => user'[s] = user[s]]_vars

\* when logout() settles the user is null, and a login() that fails leaves
\* the user and shows the error of the login page
C26_Step ==
    \A s \in Sessions :
        /\ (logoutReq[s] = "sent" /\ logoutReq'[s] # "sent") =>
              /\ user'[s] = "null"
              /\ ~isAuthenticated(user'[s])
              /\ route'[s] \notin ProtectedPaths \/ authLoading'[s]
        /\ (loginReq[s].phase # "idle" /\ loginReq'[s].phase = "idle") =>
              \/ /\ user'[s] = srvSession[s]
                 /\ user'[s] # "null"
                 /\ loginReq[s].credentials # "bad"
                 /\ ~loginError'[s]
              \/ /\ user'[s] = user[s]
                 /\ loginError'[s]
                 /\ ~isLoading'[s]

\* C26: the step that settles logout() leaves user null and isAuthenticated
\* false, whether POST /auth/logout succeeded or failed; the step that ends
\* a login() either sets the user of the session opened, or (the login
\* failed) leaves user as it was and sets the error of the login page.
C26_LogoutClearsLoginFailureKeeps == [][C26_Step]_vars

\* C26 witness: POST /auth/logout has failed: the promise of logout() is
\* rejected, the session cookie is still valid, and the user is null.
C26_Witness ==
    /\ logoutReq["s1"] = "rejected"
    /\ srvSession["s1"] # "null"
    /\ user["s1"] = "null"
    /\ route["s1"] = "login"

\* C27: a payment request in flight carries only the fields of its method:
\* with ESPECES no bank, chequeNumber or dueDate, with VIREMENT no
\* chequeNumber or dueDate.
C27_OnlyFieldsOfMethod ==
    \A s \in Sessions :
        request[s].kind = "create" =>
            LET d == request[s].data IN
            /\ d.paymentMethod = "ESPECES" =>
                  /\ d.bank = Absent
                  /\ d.chequeNumber = Absent
                  /\ d.dueDate = Absent
            /\ d.paymentMethod = "VIREMENT" =>
                  /\ d.chequeNumber = Absent
                  /\ d.dueDate = Absent

\* the products list has nothing in flight and shows no error
ListSettled(s) ==
    /\ route[s] = "products"
    /\ listFetches[s] = <<>>
    /\ listAction[s].kind = "none"
    /\ ~loading[s]
    /\ ~error[s]

\* currentPage is a page of the result last fetched
C28_PageWithinResult ==
    \A s \in Sessions :
        ListSettled(s) =>
            /\ 0 <= currentPage[s]
            /\ currentPage[s] <= Max(0, totalPages[s] - 1)

\* a change of show-deleted puts currentPage at 0
C28_ToggleStep ==
    \A s \in Sessions :
        showDeleted'[s] # showDeleted[s] => currentPage'[s] = 0

\* C28: once the products list has settled after next-page, previous-page,
\* show-deleted, delete or restore and the refetch that follows,
\* 0 <= currentPage <= max(0, totalPages - 1) for the result last fetched;
\* a change of show-deleted puts currentPage at 0.
C28_CurrentPageValid == []C28_PageWithinResult /\ [][C28_ToggleStep]_vars

\* C29: once every fetch of the products list has settled, the products,
\* totalPages and totalElements displayed are those of the page the engine
\* holds for the currentPage and showDeleted of the list.
C29_LatestRequestWins ==
    \A s \in Sessions :
        ListSettled(s) =>
            LET current == SrvPage(currentPage[s], showDeleted[s])
            IN /\ listProducts[s] = current.content
               /\ totalPages[s] = current.totalPages
               /\ totalElements[s] = current.totalElements

\* the requests behind the in-flight flags of the order page and of the forms
ActionKinds == {"confirm", "cancel", "encash", "reject"}

SubmitKinds == {"create", "createOrder"}

\* no button of the session's page can start a handler of the order page
NoActionButton(s) ==
    /\ ~HeaderConfirmEnabled(s) /\ ~AdminConfirmEnabled(s)
    /\ ~HeaderCancelEnabled(s) /\ ~AdminCancelEnabled(s)
    /\ \A i \in 1..Len(payments[s]) : ~PaymentActionsEnabled(s, i)

\* while a request of a handler is in flight its flag is true, and while the
\* flag is true the buttons that would send another one are disabled
C30_OneRequestInFlight ==
    \A s \in Sessions :
        /\ request[s].kind \in ActionKinds => actionLoading[s]
        /\ request[s].kind \in SubmitKinds => submitting[s]
        /\ actionLoading[s] => NoActionButton(s)
        /\ submitting[s] => ~SubmitOrderEnabled(s)

\* a request is sent only from a page whose actionLoading and submitting are
\* false
C30_SendStep ==
    \A s \in Sessions :
        (request'[s] # request[s] /\ request'[s].kind # "none")
            => (~actionLoading[s] /\ ~submitting[s])

\* a flag that is true becomes false again
C30_Reset ==
    \A s \in Sessions :
        /\ authLoading[s] ~> ~authLoading[s]
        /\ loading[s] ~> ~loading[s]
        /\ actionLoading[s] ~> ~actionLoading[s]
        /\ submitting[s] ~> ~submitting[s]

\* C30: every in-flight flag that is set true (auth loading, page loading,
\* actionLoading of the order page, submitting of the order and payment
\* forms) is false again once its request has settled, whether it succeeded or
\* failed, and while actionLoading or submitting is true no second confirm,
\* cancel, encash, reject or create request is sent from the page.
C30_FlagsResetAndOneRequest ==
    /\ C30_Reset
    /\ []C30_OneRequestInFlight
    /\ [][C30_SendStep]_vars

\* the POST of the payment form has failed (the order was loaded, so the error
\* is the one of handleSubmit) and submitting is false again
C30_Witness ==
    \E s \in Sessions :
        /\ route[s] = "addPayment" /\ order[s] # "null"
        /\ error[s] /\ ~submitting[s]
        /\ request[s].kind = "none"

====
